---- MODULE Spec2Model ----
(***************************************************************************)
(* A model of the habit tracker's data-access layer                        *)
(* (src/backend/database.py), its streak calculator and statistics, and    *)
(* the catalog recommender (src/backend/ml_engine.py).                     *)
(*                                                                         *)
(* The database is the SQLite file data/habit_tracker.db with the tables   *)
(* of Database.create_tables: habits(habit_id, user_id, ...) and           *)
(* habit_tracking(tracking_id, habit_id, user_id, date, completed,         *)
(* actual_time).  Calendar dates are day numbers; the ISO text             *)
(* 'YYYY-MM-DD' the code stores orders and compares as the day numbers do. *)
(***************************************************************************)
EXTENDS Integers, Sequences, FiniteSets, TLC

----------------------------------------------------------------------------
(* Bounds of the model *)

\* habits that can be created (AUTOINCREMENT ids 1..MaxHabit)
MaxHabit == 1
\* rows that can be inserted into habit_tracking (multi-user specification)
MaxTrackingId == 2
\* the last day number of the single-habit specification
MaxStreakDay == 4
\* rows that can be inserted into habit_tracking (single-habit specification)
MaxStreakRows == 4
\* the last day number and the rows of the statistics specification
MaxStatsDay == 2
MaxStatsRows == 3
\* The statistics views look back timedelta(days=29) from today, a window
\* of 30 days; the model scales the look-back to WindowSpan days.
WindowSpan == 1

Users == {1, 2}
\* the ids a caller may pass: those of created habits and one never created
HabitIds == 1..(MaxHabit + 1)
StreakDays == 0..MaxStreakDay
StatsDays == 0..MaxStatsDay

\* Python's None
None == "None"
ActualTimes == {None, "08:00"}

VARIABLES
    habits,             \* rows of table habits
    next_habit_id,      \* AUTOINCREMENT counter of habits.habit_id
    habit_tracking,     \* rows of table habit_tracking
    next_tracking_id,   \* AUTOINCREMENT counter of habit_tracking.tracking_id
    today,              \* datetime.now().date()
    writers,            \* the concurrent add_habit_log calls in progress
    rec,                \* the call observed: its arguments and its result
    users               \* rows of table users

vars == <<habits, next_habit_id, habit_tracking, next_tracking_id, today,
          writers, rec, users>>

dbVars == <<habits, next_habit_id, habit_tracking, next_tracking_id, today,
            users>>

\* the dates the multi-user specification logs: yesterday and today
RecentDays == {today - 1, today}

----------------------------------------------------------------------------
(* Tables *)

\* Table habit_logs of initialize_database: the readers get_habit_entries
\* and get_user_stats select from it, and no statement of the source
\* inserts into it.
habit_logs == {}

Bool2Int(b) == IF b THEN 1 ELSE 0

\* SELECT ... FROM habit_tracking WHERE habit_id = ? AND user_id = ? AND date = ?
SelectByKey(table, habit_id, user_id, date) ==
    {r \in table : r.habit_id = habit_id /\ r.user_id = user_id /\ r.date = date}

\* fetchone() returning None: no tracking_id is 0
NoRow == 0

\* cursor.fetchone() of the tracking_id selection: the first matching row
\* in rowid order, or None.
FetchOneId(rows) ==
    IF rows = {} THEN NoRow
    ELSE CHOOSE i \in {r.tracking_id : r \in rows} :
            \A r \in rows : i <= r.tracking_id

UpdateRow_AlwaysCompleted(table, tracking_id, completed, actual_time) ==
    {IF r.tracking_id = tracking_id
        THEN [r EXCEPT !.completed = 1, !.actual_time = actual_time]
        ELSE r : r \in table}

\* UPDATE habit_tracking SET completed = ?, actual_time = ? WHERE tracking_id = ?
UpdateRow(table, tracking_id, completed, actual_time) ==
    {IF r.tracking_id = tracking_id
        THEN [r EXCEPT !.completed = completed, !.actual_time = actual_time]
        ELSE r : r \in table}

\* INSERT INTO habit_tracking (habit_id, user_id, date, completed, actual_time)
InsertRow(table, tracking_id, habit_id, user_id, date, completed, actual_time) ==
    table \cup {[tracking_id |-> tracking_id, habit_id |-> habit_id,
                 user_id |-> user_id, date |-> date,
                 completed |-> completed, actual_time |-> actual_time]}

Upsert_AlwaysInsert(table, tracking_id, habit_id, user_id, date, completed, actual_time) ==
    InsertRow(table, tracking_id, habit_id, user_id, date, completed, actual_time)

\* The select-then-update-or-insert of add_habit_log and track_habit.
Upsert(table, tracking_id, habit_id, user_id, date, completed, actual_time) ==
    LET existing_log == FetchOneId(SelectByKey(table, habit_id, user_id, date))
    IN IF existing_log # NoRow
          THEN UpdateRow(table, existing_log, completed, actual_time)
          ELSE InsertRow(table, tracking_id, habit_id, user_id, date,
                         completed, actual_time)

\* DELETE FROM habit_tracking WHERE habit_id = ?
DeleteLogs_Nothing(table, habit_id) == table

DeleteLogs(table, habit_id) == {r \in table : r.habit_id # habit_id}

\* DELETE FROM habits WHERE habit_id = ?
DeleteHabitRow(table, habit_id) == {r \in table : r.habit_id # habit_id}

----------------------------------------------------------------------------
(* Readers *)

\* An optional date argument: NoArg when it is left None, else <<date>>
NoArg == <<>>

\* The rows as get_habit_logs returns them ('completed' as a bool)
LogDict(r) ==
    [id |-> r.tracking_id, habit_id |-> r.habit_id, user_id |-> r.user_id,
     date |-> r.date, completed |-> (r.completed # 0),
     actual_time |-> r.actual_time]

get_habit_logs_NoRange(user_id, habit_id, date, start_date, end_date) ==
    {LogDict(r) : r \in
        {r \in habit_tracking :
            /\ r.user_id = user_id /\ r.habit_id = habit_id
            /\ (date # NoArg => r.date = date[1])}}

\* get_habit_logs(user_id, habit_id, date, start_date, end_date): the rows
\* of the user's habit, of the date when one is given, and of the range
\* when both its ends are given.  The list holds each row once, so the
\* set of its members has the list's length.
get_habit_logs(user_id, habit_id, date, start_date, end_date) ==
    {LogDict(r) : r \in
        {r \in habit_tracking :
            /\ r.user_id = user_id /\ r.habit_id = habit_id
            /\ (date # NoArg => r.date = date[1])
            /\ ((start_date # NoArg /\ end_date # NoArg)
                    => (start_date[1] <= r.date /\ r.date <= end_date[1]))}}

SelectAllLogs(user_id, habit_id) ==
    {r \in habit_tracking : r.habit_id = habit_id /\ r.user_id = user_id}

\* SELECT date FROM habit_tracking
\* WHERE habit_id = ? AND user_id = ? AND completed = 1
SelectCompleted(user_id, habit_id) ==
    {r \in habit_tracking :
        r.habit_id = habit_id /\ r.user_id = user_id /\ r.completed = 1}

\* ORDER BY date ASC: the dates of the rows, one per row, ascending
RECURSIVE OrderByDateAsc(_)
OrderByDateAsc(rows) ==
    IF rows = {} THEN <<>>
    ELSE LET first == CHOOSE r \in rows : \A q \in rows :
                          \/ r.date < q.date
                          \/ (r.date = q.date /\ r.tracking_id <= q.tracking_id)
         IN <<first.date>> \o OrderByDateAsc(rows \ {first})

\* max(log_dates)
RECURSIVE MaxOf(_)
MaxOf(seq) ==
    IF Len(seq) = 1 THEN seq[1]
    ELSE LET m == MaxOf(Tail(seq)) IN IF seq[1] >= m THEN seq[1] ELSE m

\* for i in range(len(log_dates) - 1, 0, -1): count while the dates are
\* one day apart, break at the first that are not
RECURSIVE CountBackwards(_, _)
CountBackwards(log_dates, i) ==
    IF i < 2 THEN 0
    ELSE IF log_dates[i] - log_dates[i - 1] = 1
            THEN 1 + CountBackwards(log_dates, i - 1)
            ELSE 0

\* the current streak of get_streak_data
CurrentStreak(log_dates, now) ==
    IF now - MaxOf(log_dates) <= 1
       THEN 1 + CountBackwards(log_dates, Len(log_dates))
       ELSE 0

Max2(a, b) == IF a >= b THEN a ELSE b

\* for i in range(1, len(log_dates)): the running count and the maximum
RECURSIVE MaxStreakLoop(_, _, _, _)
MaxStreakLoop(log_dates, i, current_run, max_streak) ==
    IF i > Len(log_dates) THEN <<current_run, max_streak>>
    ELSE IF log_dates[i] - log_dates[i - 1] = 1
            THEN MaxStreakLoop(log_dates, i + 1, current_run + 1, max_streak)
            ELSE MaxStreakLoop(log_dates, i + 1, 1, Max2(max_streak, current_run))

MaxStreak_NoFlush(log_dates) ==
    MaxStreakLoop(log_dates, 2, 1, 0)[2]

MaxStreak_NoIncrement(log_dates) ==
    IF Len(log_dates) > 0 THEN 1 ELSE 0

\* the max streak of get_streak_data, with the flush after the loop
MaxStreak(log_dates) ==
    LET end == MaxStreakLoop(log_dates, 2, 1, 0)
    IN Max2(end[2], end[1])

StreakLogs_NoCompletedFilter(user_id, habit_id) == SelectAllLogs(user_id, habit_id)

\* the rows get_streak_data selects
StreakLogs(user_id, habit_id) == SelectCompleted(user_id, habit_id)

\* get_streak_data(user_id, habit_id)
get_streak_data(user_id, habit_id) ==
    LET logs == OrderByDateAsc(StreakLogs(user_id, habit_id))
    IN IF logs = <<>>
          THEN [current_streak |-> 0, max_streak |-> 0]
          ELSE [current_streak |-> CurrentStreak(logs, today),
                max_streak |-> MaxStreak(logs)]

\* get_habit_entries(habit_id): SELECT * FROM habit_logs WHERE habit_id = ?
get_habit_entries(habit_id) == {r \in habit_logs : r.habit_id = habit_id}

\* The rows of habit_logs that get_user_stats counts for the user's habits
get_user_stats_logs(user_id) ==
    {r \in habit_logs :
        /\ r.user_id = user_id
        /\ \E h \in habits : h.user_id = user_id /\ h.habit_id = r.habit_id}

\* Database.get_tracking_data(habit_id, user_id, days): the rows of the
\* user's habit (LIMIT days keeps the latest; the model holds fewer rows)
Database_get_tracking_data(habit_id, user_id) ==
    {[date |-> r.date, completed |-> r.completed, actual_time |-> r.actual_time] :
        r \in SelectAllLogs(user_id, habit_id)}

\* render_statistics_view: the window of the last 30 days and the
\* completion rate (logged_days / total_days) * 100 of one habit, kept as
\* the fraction num / den
StatsWindow == [start_date |-> today - WindowSpan, end_date |-> today]

completion_rate(user_id, habit_id) ==
    LET logs == get_habit_logs(user_id, habit_id, NoArg,
                               <<StatsWindow.start_date>>,
                               <<StatsWindow.end_date>>)
        logged_days == Cardinality(logs)
        total_days == (StatsWindow.end_date - StatsWindow.start_date) + 1
    IN [num |-> logged_days * 100, den |-> total_days]

----------------------------------------------------------------------------
(* Operations *)

\* the quick-add form of the dashboard: the name typed and the time '08:00'
\* that the form passes as selected_time
QuickAddName == "habit"
Text0800 == <<"0", "8", ":", "0", "0">>

\* no concurrent call in progress, no recommendation asked for
NoWriters == <<>>
NoCall == [status |-> "none"]

Init ==
    /\ habits = {}
    /\ next_habit_id = 1
    /\ habit_tracking = {}
    /\ next_tracking_id = 1
    /\ today = 0
    /\ writers = NoWriters
    /\ rec = NoCall
    /\ users = {}

\* INSERT INTO habits (user_id, habit_name, ..., selected_time, ...)
InsertHabit(table, habit_id, user_id, name, selected_time) ==
    table \cup {[habit_id |-> habit_id, user_id |-> user_id,
                 habit_name |-> name, selected_time |-> selected_time]}

\* add_user_habit(user_id, name, ..., selected_time): INSERT INTO habits,
\* returns cursor.lastrowid
add_user_habit(user_id, name, selected_time) ==
    /\ next_habit_id <= MaxHabit
    /\ habits' = InsertHabit(habits, next_habit_id, user_id, name, selected_time)
    /\ next_habit_id' = next_habit_id + 1
    /\ UNCHANGED <<habit_tracking, next_tracking_id, today>>
    /\ UNCHANGED <<writers, rec, users>>

\* delete_habit(habit_id): deletes the logs, then the habit
delete_habit(habit_id) ==
    /\ habit_tracking' = DeleteLogs(habit_tracking, habit_id)
    /\ habits' = DeleteHabitRow(habits, habit_id)
    /\ UNCHANGED <<next_habit_id, next_tracking_id, today>>
    /\ UNCHANGED <<writers, rec, users>>

\* Database.delete_habit(habit_id): deletes the habit, then the logs
Database_delete_habit(habit_id) ==
    /\ habits' = DeleteHabitRow(habits, habit_id)
    /\ habit_tracking' = DeleteLogs(habit_tracking, habit_id)
    /\ UNCHANGED <<next_habit_id, next_tracking_id, today>>
    /\ UNCHANGED <<writers, rec, users>>

\* The model stops inserting when the tracking ids reach max_id.
CanLog(max_id, habit_id, user_id, date) ==
    \/ SelectByKey(habit_tracking, habit_id, user_id, date) # {}
    \/ next_tracking_id <= max_id

\* sqlite_sequence: the counter moves on when the id was used
NextTrackingId(table) ==
    IF \E r \in table : r.tracking_id = next_tracking_id
       THEN next_tracking_id + 1 ELSE next_tracking_id

\* add_habit_log(user_id, habit_id, date, completed, actual_time); the
\* trailing update_habit_streak is a placeholder that returns True.
add_habit_log(user_id, habit_id, date, completed, actual_time) ==
    /\ habit_tracking' = Upsert(habit_tracking, next_tracking_id, habit_id,
                                user_id, date, Bool2Int(completed), actual_time)
    /\ next_tracking_id' = NextTrackingId(habit_tracking')
    /\ UNCHANGED <<habits, next_habit_id, today>>
    /\ UNCHANGED <<writers, rec, users>>

\* Database.track_habit(habit_id, user_id, completed, actual_time): the
\* same upsert on today's date; sqlite3 binds True and False as 1 and 0.
Database_track_habit(habit_id, user_id, completed, actual_time) ==
    /\ habit_tracking' = Upsert(habit_tracking, next_tracking_id, habit_id,
                                user_id, today, Bool2Int(completed), actual_time)
    /\ next_tracking_id' = NextTrackingId(habit_tracking')
    /\ UNCHANGED <<habits, next_habit_id, today>>
    /\ UNCHANGED <<writers, rec, users>>

\* Midnight passes: datetime.now().date() moves on by one day.
AdvanceDay(last_day) ==
    /\ today < last_day
    /\ today' = today + 1
    /\ UNCHANGED <<habits, next_habit_id, habit_tracking, next_tracking_id>>
    /\ UNCHANGED <<writers, rec, users>>

\* Several users, created and unknown habit ids, creation and deletion.
Next ==
    \/ \E u \in Users : add_user_habit(u, QuickAddName, Text0800)
    \/ \E h \in HabitIds : delete_habit(h)
    \/ \E h \in HabitIds : Database_delete_habit(h)
    \/ \E u \in Users, h \in HabitIds, d \in RecentDays, c \in BOOLEAN :
          /\ CanLog(MaxTrackingId, h, u, d)
          /\ add_habit_log(u, h, d, c, None)
    \/ \E u \in Users, h \in HabitIds, c \in BOOLEAN :
          /\ CanLog(MaxTrackingId, h, u, today)
          /\ Database_track_habit(h, u, c, None)

Spec == Init /\ [][Next]_vars

\* One user's one habit, logged on any day while the days pass.
InitHabitLog ==
    /\ habits = InsertHabit({}, 1, 1, QuickAddName, Text0800)
    /\ next_habit_id = 2
    /\ habit_tracking = {}
    /\ next_tracking_id = 1
    /\ today = 0
    /\ writers = NoWriters
    /\ rec = NoCall
    /\ users = {}

NextHabitLog ==
    \/ \E d \in StreakDays, c \in BOOLEAN :
          /\ CanLog(MaxStreakRows, 1, 1, d)
          /\ add_habit_log(1, 1, d, c, None)
    \/ AdvanceDay(MaxStreakDay)

SpecHabitLog == InitHabitLog /\ [][NextHabitLog]_vars

\* The same habit over the days of the statistics window and before it.
NextStats ==
    \/ \E d \in StatsDays, c \in BOOLEAN :
          /\ CanLog(MaxStatsRows, 1, 1, d)
          /\ add_habit_log(1, 1, d, c, None)
    \/ AdvanceDay(MaxStatsDay)

SpecStats == InitHabitLog /\ [][NextStats]_vars

----------------------------------------------------------------------------
(* Two add_habit_log calls at once.  Each call opens its own connection;   *)
(* its SELECT (lines 302-307) and its UPDATE or INSERT with the commit     *)
(* (lines 309-323) are two statements, and the statements of two calls     *)
(* interleave.  habit_tracking has no UNIQUE constraint on the key.        *)

Writers == {1, 2}

\* the key both calls write: user 1, habit 1, today
WriterRows == SelectByKey(habit_tracking, 1, 1, today)

InitConcurrent ==
    /\ habits = InsertHabit({}, 1, 1, QuickAddName, Text0800)
    /\ next_habit_id = 2
    /\ today = 0
    /\ \/ /\ habit_tracking = {}
          /\ next_tracking_id = 1
       \/ /\ habit_tracking = InsertRow({}, 1, 1, 1, today, 0, None)
          /\ next_tracking_id = 2
    /\ writers \in [Writers -> [pc : {"start"}, existing_log : {NoRow},
                                completed : BOOLEAN, actual_time : ActualTimes]]
    /\ rec = NoCall
    /\ users = {}

\* cursor.execute(SELECT tracking_id ...); existing_log = cursor.fetchone()
add_habit_log_select(w) ==
    /\ writers[w].pc = "start"
    /\ writers' = [writers EXCEPT ![w].pc = "selected",
                                  ![w].existing_log = FetchOneId(WriterRows)]
    /\ UNCHANGED <<dbVars, rec>>

\* if existing_log: UPDATE ... else: INSERT ...; conn.commit()
add_habit_log_write(w) ==
    /\ writers[w].pc = "selected"
    /\ habit_tracking' =
          IF writers[w].existing_log # NoRow
             THEN UpdateRow(habit_tracking, writers[w].existing_log,
                            Bool2Int(writers[w].completed), writers[w].actual_time)
             ELSE InsertRow(habit_tracking, next_tracking_id, 1, 1, today,
                            Bool2Int(writers[w].completed), writers[w].actual_time)
    /\ next_tracking_id' = NextTrackingId(habit_tracking')
    /\ writers' = [writers EXCEPT ![w].pc = "done"]
    /\ UNCHANGED <<habits, next_habit_id, today, rec, users>>

NextConcurrent ==
    \/ \E w \in Writers : add_habit_log_select(w)
    \/ \E w \in Writers : add_habit_log_write(w)

SpecConcurrent == InitConcurrent /\ [][NextConcurrent]_vars

----------------------------------------------------------------------------
(* The catalog recommender, HabitRecommender.recommend_habits.  Texts are  *)
(* sequences of characters; the Cyrillic words are written in Latin        *)
(* letters ("minut" for the word of minutes, "chas" for the hour).         *)

MaxCatalog == 3

\* the time-commitment buckets '5 minut', '15 minut', '30 minut', '1 chas'
Text5Minut == <<"5", " ", "m", "i", "n", "u", "t">>
Text15Minut == <<"1", "5", " ", "m", "i", "n", "u", "t">>
Text30Minut == <<"3", "0", " ", "m", "i", "n", "u", "t">>
Text1Chas == <<"1", " ", "c", "h", "a", "s">>

\* the categories of the time_ columns: the buckets of the survey
TimeCommitmentCategories == <<Text5Minut, Text15Minut, Text30Minut, Text1Chas>>

\* The literals of get_time_commitment_options hold, in place of each
\* Cyrillic letter, the two characters that the letter's UTF-8 bytes read as
\* in Mac Roman ("-" and "_" stand for the two lead characters, the capital
\* for the second one)
Option5Minut == <<"5", " ", "-", "M", "-", "I", "-", "N", "_", "U", "_", "T">>
Option15Minut == <<"1", "5", " ", "-", "M", "-", "I", "-", "N", "_", "U", "_", "T">>
Option30Minut == <<"3", "0", " ", "-", "M", "-", "I", "-", "N", "_", "U", "_", "T">>
Option1Chas == <<"1", " ", "_", "C", "-", "A", "_", "S">>

get_time_commitment_options ==
    <<Option5Minut, Option15Minut, Option30Minut, Option1Chas>>

\* the values user_data['time_commitment'] takes: a bucket of the survey or
\* an option of the preference form
TimeCommitments ==
    {TimeCommitmentCategories[i] : i \in DOMAIN TimeCommitmentCategories}
        \cup {get_time_commitment_options[i] :
                  i \in DOMAIN get_time_commitment_options}

\* sub in text
Contains(sub, text) ==
    \E i \in 0..(Len(text) - Len(sub)) : SubSeq(text, i + 1, i + Len(sub)) = sub

\* the if/elif chain that converts time_commitment to minutes
TimeMins(time_commitment) ==
    IF Contains(Text5Minut, time_commitment) THEN 5
    ELSE IF Contains(Text15Minut, time_commitment) THEN 15
    ELSE IF Contains(Text30Minut, time_commitment) THEN 30
    ELSE IF Contains(Text1Chas, time_commitment) THEN 60
    ELSE 0

\* the keys (and values) of category_mapping
category_mapping ==
    {"Fizicheskoe zdorove", "Mentalnoe zdorove", "Produktivnost",
     "Finansy", "Otnosheniya"}

\* x.split(sep)[0]: the text before the first separator
RECURSIVE BeforeFirst(_, _)
BeforeFirst(text, seps) ==
    IF text = <<>> \/ Head(text) \in seps THEN <<>>
    ELSE <<Head(text)>> \o BeforeFirst(Tail(text), seps)

\* x.split()[0]: leading blanks skipped, then the text before the next blank
RECURSIVE FirstWord(_)
FirstWord(text) ==
    IF text # <<>> /\ Head(text) = " " THEN FirstWord(Tail(text))
    ELSE BeforeFirst(text, {" "})

DigitValue(c) ==
    CASE c = "0" -> 0 [] c = "1" -> 1 [] c = "2" -> 2 [] c = "3" -> 3
      [] c = "4" -> 4 [] c = "5" -> 5 [] c = "6" -> 6 [] c = "7" -> 7
      [] c = "8" -> 8 [] c = "9" -> 9

\* int(text) of a text of decimal digits
RECURSIVE ParseInt(_)
ParseInt(text) ==
    IF Len(text) = 1 THEN DigitValue(text[1])
    ELSE 10 * ParseInt(SubSeq(text, 1, Len(text) - 1)) + DigitValue(text[Len(text)])

\* lambda x: int(x.split('-')[0].split()[0]) if '-' in x else int(x.split()[0])
MinTime(time_required) ==
    IF Contains(<<"-">>, time_required)
       THEN ParseInt(FirstWord(BeforeFirst(time_required, {"-"})))
       ELSE ParseInt(FirstWord(time_required))

Abs(x) == IF x < 0 THEN 0 - x ELSE x

\* seq.head(n)
HeadN(seq, n) == SubSeq(seq, 1, IF Len(seq) < n THEN Len(seq) ELSE n)

\* sort_values(by=['time_diff']): the rows in ascending time_diff.  The
\* default sort kind is not a stable one, so rows of equal time_diff may
\* come out in any order: every ascending arrangement is an outcome.
SortOutcomes(rows) ==
    LET n == Len(rows)
        perms == {f \in [1..n -> 1..n] : \A i, j \in 1..n : i # j => f[i] # f[j]}
    IN {[i \in 1..n |-> rows[f[i]]] :
            f \in {g \in perms : \A i \in 1..(n - 1) :
                        rows[g[i]].time_diff <= rows[g[i + 1]].time_diff}}

\* lines 215-237: the catalog rows of the user's categories that take at
\* most time_mins + 5 minutes, with their min_time and time_diff
FilteredHabits(improvement_areas, time_commitment, catalog) ==
    LET time_mins == TimeMins(time_commitment)
        filtered_categories ==
            {area \in {improvement_areas[i] : i \in DOMAIN improvement_areas} :
                area \in category_mapping}
        InCategory(row) == row.category \in filtered_categories
        in_category == SelectSeq(catalog, InCategory)
        with_min_time ==
            [i \in DOMAIN in_category |->
                [name |-> in_category[i].name,
                 category |-> in_category[i].category,
                 time_required |-> in_category[i].time_required,
                 min_time |-> MinTime(in_category[i].time_required)]]
        ShortEnough(row) == row.min_time <= time_mins + 5
        filtered_habits == SelectSeq(with_min_time, ShortEnough)
    IN [i \in DOMAIN filtered_habits |->
            [name |-> filtered_habits[i].name,
             category |-> filtered_habits[i].category,
             time_required |-> filtered_habits[i].time_required,
             min_time |-> filtered_habits[i].min_time,
             time_diff |-> Abs(filtered_habits[i].min_time - time_mins)]]

\* recommend_habits(user_data, n_recommendations): the lists it can return,
\* or KeyError.  Lines 184-187 (the neighbour search) leave no trace in the
\* result.  When no row passes the filter, filtered_habits is replaced by
\* rows of the catalog itself, which carry no 'min_time' column, and line
\* 237 raises KeyError.
recommend_habits(improvement_areas, time_commitment, catalog, n_recommendations) ==
    LET filtered_habits ==
            FilteredHabits(improvement_areas, time_commitment, catalog)
    IN IF filtered_habits = <<>>
          THEN {[status |-> "KeyError", recommendations |-> <<>>]}
          ELSE {[status |-> "returned",
                 recommendations |-> HeadN(sorted, n_recommendations)] :
                    sorted \in SortOutcomes(filtered_habits)}

\* The rows the model's catalogs are made of
Text10to15 == <<"1", "0", "-", "1", "5", " ", "m", "i", "n", "u", "t">>
Text20to30 == <<"2", "0", "-", "3", "0", " ", "m", "i", "n", "u", "t">>
Text15to30 == <<"1", "5", "-", "3", "0", " ", "m", "i", "n", "u", "t">>

CatalogRows ==
    {[name |-> "a5", category |-> "Produktivnost", time_required |-> Text5Minut],
     [name |-> "b10", category |-> "Produktivnost", time_required |-> Text10to15],
     [name |-> "c20", category |-> "Produktivnost", time_required |-> Text20to30],
     [name |-> "d15", category |-> "Finansy", time_required |-> Text15to30],
     [name |-> "e5", category |-> "Finansy", time_required |-> Text5Minut]}

\* the catalogs: up to MaxCatalog distinct rows in any order
Catalogs ==
    UNION {{c \in [1..n -> CatalogRows] :
                \A i, j \in 1..n : i # j => c[i] # c[j]} : n \in 1..MaxCatalog}

ImprovementAreas ==
    {<<"Produktivnost">>, <<"Finansy">>, <<"Produktivnost", "Finansy">>,
     <<"Sport">>}

DefaultRecommendations == 5

InitRecommend ==
    /\ habits = {}
    /\ next_habit_id = 1
    /\ habit_tracking = {}
    /\ next_tracking_id = 1
    /\ today = 0
    /\ writers = NoWriters
    /\ users = {}
    /\ \E areas \in ImprovementAreas, catalog \in Catalogs,
          time_commitment \in TimeCommitments,
          n \in {2, DefaultRecommendations} :
            rec = [status |-> "called", improvement_areas |-> areas,
                   time_commitment |-> time_commitment,
                   catalog |-> catalog, n_recommendations |-> n,
                   recommendations |-> <<>>]

Recommend ==
    /\ rec.status = "called"
    /\ \E result \in recommend_habits(rec.improvement_areas, rec.time_commitment,
                                      rec.catalog, rec.n_recommendations) :
          rec' = [rec EXCEPT !.status = result.status,
                             !.recommendations = result.recommendations]
    /\ UNCHANGED <<dbVars, writers>>

NextRecommend == Recommend

SpecRecommend == InitRecommend /\ [][NextRecommend]_vars

----------------------------------------------------------------------------
(* Numbers as texts *)

DigitChar(d) ==
    CASE d = 0 -> "0" [] d = 1 -> "1" [] d = 2 -> "2" [] d = 3 -> "3"
      [] d = 4 -> "4" [] d = 5 -> "5" [] d = 6 -> "6" [] d = 7 -> "7"
      [] d = 8 -> "8" [] d = 9 -> "9"

\* f"{n}" of a number n >= 0
RECURSIVE Str(_)
Str(n) == IF n < 10 THEN <<DigitChar(n)>> ELSE Str(n \div 10) \o <<DigitChar(n % 10)>>

\* f"{n:02d}" of a number n >= 0
Pad2(n) == IF n < 10 THEN <<"0">> \o Str(n) ELSE Str(n)

----------------------------------------------------------------------------
(* HabitRecommender.recommend_optimal_time.  A time is the text 'HH:MM', a  *)
(* sequence of characters; None and '' are the empty sequence.              *)

\* entries of tracking_data that the model's calls hold at most
MaxEntries == 4

IsDigits(text) ==
    /\ text # <<>>
    /\ \A i \in DOMAIN text :
          text[i] \in {"0", "1", "2", "3", "4", "5", "6", "7", "8", "9"}

\* the text after the first ':'
AfterColon(text) ==
    SubSeq(text, Len(BeforeFirst(text, {":"})) + 2, Len(text))

\* datetime.strptime(time_str, '%H:%M').time(): <<the time>>, or <<>> for
\* the ValueError of a text that is not an hour of one or two digits up to
\* 23, a colon and a minute of one or two digits up to 59
StrpTime(time_str) ==
    LET hour == BeforeFirst(time_str, {":"})
        minute == AfterColon(time_str)
    IN IF /\ Contains(<<":">>, time_str)
          /\ IsDigits(hour) /\ Len(hour) <= 2
          /\ IsDigits(minute) /\ Len(minute) <= 2
          /\ ParseInt(hour) <= 23 /\ ParseInt(minute) <= 59
          THEN <<[hour |-> ParseInt(hour), minute |-> ParseInt(minute), second |-> 0]>>
          ELSE <<>>

\* [entry['actual_time'] for entry in tracking_data
\*      if entry['completed'] and entry['actual_time']]
ActualTimesOf(tracking_data) ==
    LET Kept(entry) == entry.completed # 0 /\ entry.actual_time # <<>>
        kept == SelectSeq(tracking_data, Kept)
    IN [i \in DOMAIN kept |-> kept[i].actual_time]

\* the loop that parses the times and skips those strptime rejects
TimeObjects(actual_times) ==
    LET Parses(time_str) == StrpTime(time_str) # <<>>
        parsed == SelectSeq(actual_times, Parses)
    IN [i \in DOMAIN parsed |-> StrpTime(parsed[i])[1]]

\* sum((t.hour * 3600 + t.minute * 60 + t.second) for t in time_objects)
RECURSIVE TotalSeconds(_)
TotalSeconds(time_objects) ==
    IF time_objects = <<>> THEN 0
    ELSE LET t == Head(time_objects)
         IN t.hour * 3600 + t.minute * 60 + t.second
                + TotalSeconds(Tail(time_objects))

\* f"{avg_hours:02d}:{avg_minutes:02d}" of the average
RecommendedTime(time_objects) ==
    LET avg_seconds == TotalSeconds(time_objects) \div Len(time_objects)
        avg_hours == avg_seconds \div 3600
        avg_minutes == (avg_seconds % 3600) \div 60
    IN Pad2(avg_hours) \o <<":">> \o Pad2(avg_minutes)

SignificantlyDifferent_AtLeastTwoHours(current_seconds, recommended_seconds) ==
    Abs(current_seconds - recommended_seconds) >= 7200

\* abs(current_seconds - recommended_seconds) > 7200
SignificantlyDifferent(current_seconds, recommended_seconds) ==
    Abs(current_seconds - recommended_seconds) > 7200

\* recommend_optimal_time(tracking_data, current_selected_time)
recommend_optimal_time(tracking_data, current_selected_time) ==
    IF Len(tracking_data) < 3 THEN current_selected_time
    ELSE LET actual_times == ActualTimesOf(tracking_data)
             time_objects == TimeObjects(actual_times)
         IN IF actual_times = <<>> THEN current_selected_time
            ELSE IF time_objects = <<>> THEN current_selected_time
            ELSE LET recommended_time == RecommendedTime(time_objects)
                     current_time_obj == StrpTime(current_selected_time)[1]
                     recommended_time_obj == StrpTime(recommended_time)[1]
                     current_seconds ==
                         current_time_obj.hour * 3600 + current_time_obj.minute * 60
                     recommended_seconds ==
                         recommended_time_obj.hour * 3600
                             + recommended_time_obj.minute * 60
                 IN IF SignificantlyDifferent(current_seconds, recommended_seconds)
                       THEN recommended_time
                       ELSE current_selected_time

Text0750 == <<"0", "7", ":", "5", "0">>
Text0810 == <<"0", "8", ":", "1", "0">>
Text0830 == <<"0", "8", ":", "3", "0">>
Text1000 == <<"1", "0", ":", "0", "0">>
Text1030 == <<"1", "0", ":", "3", "0">>
Text2400 == <<"2", "4", ":", "0", "0">>

\* the entries of tracking_data: completed with a time, completed with a
\* text that is no time, completed without a time, and not completed
TrackingEntries ==
    {[completed |-> 1, actual_time |-> t] :
        t \in {Text0750, Text0800, Text0810, Text2400, <<>>}}
    \cup {[completed |-> 0, actual_time |-> Text0800]}

TrackingData ==
    UNION {[1..n -> TrackingEntries] : n \in 0..MaxEntries}

CurrentTimes == {Text0830, Text1000, Text1030}

InitOptimalTime ==
    /\ habits = {}
    /\ next_habit_id = 1
    /\ habit_tracking = {}
    /\ next_tracking_id = 1
    /\ today = 0
    /\ writers = NoWriters
    /\ users = {}
    /\ \E tracking_data \in TrackingData, current \in CurrentTimes :
          rec = [status |-> "called", tracking_data |-> tracking_data,
                 current_selected_time |-> current, result |-> <<>>]

RecommendOptimalTime ==
    /\ rec.status = "called"
    /\ rec' = [rec EXCEPT
                  !.status = "returned",
                  !.result = recommend_optimal_time(rec.tracking_data,
                                                    rec.current_selected_time)]
    /\ UNCHANGED <<dbVars, writers>>

NextOptimalTime == RecommendOptimalTime

SpecOptimalTime == InitOptimalTime /\ [][NextOptimalTime]_vars

----------------------------------------------------------------------------
(* Accounts.  The users table is the one of Database.create_tables, whose   *)
(* columns create_user and the lookups name: users(user_id TEXT PRIMARY     *)
(* KEY, name TEXT, ...), with no UNIQUE constraint on name.  create_user    *)
(* stores the username in name.                                             *)

\* log rows that can be inserted in the accounts specification
MaxAccountRows == 1

Usernames == {"alice", "bob"}
Emails == {"a@example.org"}
Passwords == {"secret", "hunter2"}
Salts == {"salt1", "salt2"}

\* bcrypt.hashpw(password, salt): the hash holds its salt
hashpw(password, salt) == [salt |-> salt, digest |-> <<salt, password>>]

\* bcrypt.checkpw(password, hashed_password): the password hashed with the
\* salt of the hash is the hash
checkpw(password, hashed_password) ==
    hashpw(password, hashed_password.salt) = hashed_password

\* verify_password(password, stored_hash); the column holds a bcrypt hash in
\* every row of the model, so that checkpw does not raise
verify_password(password, stored_hash) == checkpw(password, stored_hash)

\* a Python result that is None, and one that is a value
NotFound == <<>>
Found(value) == <<value>>

\* SELECT * FROM users WHERE user_id = ?
SelectUserById(user_id) == {r \in users : r.user_id = user_id}

\* SELECT * FROM users WHERE name = ?
SelectUserByName(username) == {r \in users : r.name = username}

\* cursor.fetchone() of a scan of users: the row of the least rowid
FetchOneUser(rows) == CHOOSE r \in rows : \A q \in rows : r.rowid <= q.rowid

\* INSERT INTO users (user_id, name, age, gender, registration_date): the
\* PRIMARY KEY user_id is the only constraint, and IntegrityError is raised
\* for a user_id that the table holds
InsertUser(table, user_id, username, email, password_hash) ==
    IF \E r \in table : r.user_id = user_id
       THEN [status |-> "IntegrityError", table |-> table]
       ELSE [status |-> "ok",
             table |-> table \cup {[rowid |-> Cardinality(table) + 1,
                                    user_id |-> user_id, name |-> username,
                                    age |-> email, gender |-> password_hash,
                                    existing_habits |-> None,
                                    improvement_areas |-> None]}]

\* create_user(username, email, password): user_id = str(uuid.uuid4()), an
\* id that no row holds; returns the user_id, or None on IntegrityError
create_user(username, email, password) ==
    /\ \E user_id \in Users, salt \in Salts :
          /\ SelectUserById(user_id) = {}
          /\ LET inserted == InsertUser(users, user_id, username, email,
                                        hashpw(password, salt))
             IN /\ users' = inserted.table
                /\ rec' = [status |-> "create_user", username |-> username,
                           result |-> IF inserted.status = "ok"
                                         THEN Found(user_id) ELSE NotFound]
    /\ UNCHANGED <<habits, next_habit_id, habit_tracking, next_tracking_id,
                   today, writers>>

\* get_user_by_id(user_id)
get_user_by_id(user_id) ==
    IF SelectUserById(user_id) = {} THEN NotFound
    ELSE LET user == FetchOneUser(SelectUserById(user_id))
         IN Found([id |-> user.user_id, username |-> user.name,
                   email |-> user.age, password_hash |-> user.gender,
                   full_name |-> user.name,
                   notification_settings |-> user.improvement_areas])

\* get_user_by_username(username)
get_user_by_username(username) ==
    IF SelectUserByName(username) = {} THEN NotFound
    ELSE LET user == FetchOneUser(SelectUserByName(username))
         IN Found([id |-> user.user_id, username |-> user.name,
                   email |-> "", password_hash |-> user.gender])

\* get_user_data(user_id): get_user_by_id without the password hash
get_user_data(user_id) ==
    IF get_user_by_id(user_id) = NotFound THEN NotFound
    ELSE LET user == get_user_by_id(user_id)[1]
         IN Found([id |-> user.id, username |-> user.username,
                   email |-> user.email, full_name |-> user.full_name,
                   notification_settings |-> user.notification_settings])

\* get_user_habits(user_id): the user's habits as dicts (the list is in
\* descending created_date; the model keeps the rows as a set), [] if none
get_user_habits(user_id) ==
    {[id |-> h.habit_id, user_id |-> h.user_id, name |-> h.habit_name,
      selected_time |-> h.selected_time] : h \in {r \in habits : r.user_id = user_id}}

\* Database.get_habit(habit_id)
Database_get_habit(habit_id) ==
    IF \A r \in habits : r.habit_id # habit_id THEN NotFound
    ELSE Found(CHOOSE r \in habits : r.habit_id = habit_id)

\* Registered users create habits, delete them and log them.  A page logs
\* a habit that it read at its start, which another session of the user
\* may have deleted since.
NextAccounts ==
    \/ \E username \in Usernames, email \in Emails, password \in Passwords :
          create_user(username, email, password)
    \/ \E u \in Users :
          /\ SelectUserById(u) # {}
          /\ add_user_habit(u, QuickAddName, Text0800)
    \/ \E h \in HabitIds : delete_habit(h)
    \/ \E u \in Users, h \in HabitIds, c \in BOOLEAN :
          /\ SelectUserById(u) # {}
          /\ h < next_habit_id
          /\ CanLog(MaxAccountRows, h, u, today)
          /\ add_habit_log(u, h, today, c, None)

SpecAccounts == Init /\ [][NextAccounts]_vars

----------------------------------------------------------------------------
(* The habit forms of render_manage_habits (src/frontend/dashboard.py)      *)

NewLine == "\n"

Text2359 == <<"2", "3", ":", "5", "9">>
Text800 == <<"8", ":", "0", "0">>
Text0860 == <<"0", "8", ":", "6", "0">>
TextNoColon == <<"0", "8", "0", "0">>
Text0800NewLine == <<"0", "8", ":", "0", "0", NewLine>>
Text0800Blank == <<"0", "8", ":", "0", "0", " ">>

\* what can be typed into the text input of the scheduled time
TimeTexts ==
    {Text0800, Text2359, Text800, Text2400, Text0860, TextNoColon,
     Text0800NewLine, Text0800Blank, <<>>}

\* what can be typed into the text input of the habit's name
HabitNames == {"", "run", "read"}

\* the values of st.time_input
TimeInputs == {[hour |-> 8, minute |-> 0], [hour |-> 23, minute |-> 59]}

\* ([01]?[0-9]|2[0-3])
MatchesHour(text) ==
    /\ IsDigits(text)
    /\ \/ Len(text) = 1
       \/ Len(text) = 2 /\ text[1] \in {"0", "1"}
       \/ Len(text) = 2 /\ text[1] = "2" /\ text[2] \in {"0", "1", "2", "3"}

\* ([0-5][0-9])
MatchesMinute(text) ==
    /\ IsDigits(text)
    /\ Len(text) = 2
    /\ text[1] \in {"0", "1", "2", "3", "4", "5"}

\* ^([01]?[0-9]|2[0-3]):([0-5][0-9]) matched up to the end of the text
MatchesToEnd(text) ==
    /\ Len(text) >= 4
    /\ MatchesHour(SubSeq(text, 1, Len(text) - 3))
    /\ text[Len(text) - 2] = ":"
    /\ MatchesMinute(SubSeq(text, Len(text) - 1, Len(text)))

\* validate_time_format(time_str): re.match of the pattern, whose $ matches
\* at the end of the text and also just before a newline that ends the text
validate_time_format(time_str) ==
    \/ MatchesToEnd(time_str)
    \/ /\ time_str # <<>>
       /\ time_str[Len(time_str)] = NewLine
       /\ MatchesToEnd(SubSeq(time_str, 1, Len(time_str) - 1))

\* habit_selected_time.strftime("%H:%M")
StrfTime(time) == Pad2(time.hour) \o <<":">> \o Pad2(time.minute)

\* UPDATE habits SET habit_name = ?, ..., selected_time = ? WHERE habit_id = ?
UpdateHabitRow(table, habit_id, name, selected_time) ==
    {IF r.habit_id = habit_id
        THEN [r EXCEPT !.habit_name = name, !.selected_time = selected_time]
        ELSE r : r \in table}

\* update_habit(habit_id, name, description, time_required, difficulty,
\* selected_time)
update_habit(habit_id, name, selected_time) ==
    /\ habits' = UpdateHabitRow(habits, habit_id, name, selected_time)
    /\ UNCHANGED <<next_habit_id, habit_tracking, next_tracking_id, today>>
    /\ UNCHANGED <<writers, rec, users>>

\* st.error(...): the message the form shows
FormError(form, name, selected_time) ==
    /\ rec' = [status |-> "error", form |-> form, name |-> name,
               selected_time |-> selected_time]
    /\ UNCHANGED <<dbVars, writers>>

\* the form 'detailed_habit_form' submitted: an empty name is an error,
\* any other name is passed to add_user_habit
detailed_habit_form(user_id, habit_name, habit_selected_time) ==
    IF habit_name = ""
       THEN FormError("detailed_habit_form", habit_name,
                      StrfTime(habit_selected_time))
       ELSE add_user_habit(user_id, habit_name, StrfTime(habit_selected_time))

\* the edit form of a habit submitted: a time that validate_time_format
\* rejects is an error, any other is passed to update_habit
save_changes(habit_id, new_name, new_selected_time) ==
    /\ \E habit \in habits : habit.habit_id = habit_id
    /\ IF ~validate_time_format(new_selected_time)
          THEN FormError("edit_habit", new_name, new_selected_time)
          ELSE update_habit(habit_id, new_name, new_selected_time)

NextManageHabits ==
    \/ \E u \in Users, name \in HabitNames, time \in TimeInputs :
          detailed_habit_form(u, name, time)
    \/ \E h \in HabitIds, name \in HabitNames, text \in TimeTexts :
          save_changes(h, name, text)

SpecManageHabits == Init /\ [][NextManageHabits]_vars

----------------------------------------------------------------------------
(* recommend_habits called for two users.  The call computes the user's     *)
(* features and asks the model for the nearest survey rows (lines 184-187)  *)
(* before it filters the catalog.  sort_values is a function of the frame   *)
(* it sorts: a build arranges rows of equal time_diff in one way, kept in   *)
(* the catalog's order or not.                                              *)

SortKinds == {"ties kept", "ties reversed"}

\* sort_values(by=['time_diff']) of one build
sort_values(rows, kind) ==
    LET n == Len(rows)
        perms == {f \in [1..n -> 1..n] : \A i, j \in 1..n : i # j => f[i] # f[j]}
        Key(j) == rows[j].time_diff * (n + 1)
                      + (IF kind = "ties kept" THEN j ELSE n - j)
        order == CHOOSE f \in perms : \A i \in 1..(n - 1) : Key(f[i]) < Key(f[i + 1])
    IN [i \in 1..n |-> rows[order[i]]]

\* the survey answers of a user other than improvement areas and time
\* commitment
Profiles ==
    {[age |-> "18-25", gender |-> "Zhenskii", existing_habits |-> "Sport",
      preferred_time |-> "Utro", barriers |-> "Len"],
     [age |-> "45+", gender |-> "Muzhskoi", existing_habits |-> "Chtenie",
      preferred_time |-> "Vecher", barriers |-> "Net vremeni"]}

\* results of self.model.kneighbors(user_features): the indices of the 3
\* nearest survey rows
Neighbours == {<<0, 1, 2>>, <<5, 3, 4>>}

recommend_habits_NeighboursCounted(user_data, indices, catalog, n_recommendations, kind) ==
    LET filtered_habits ==
            FilteredHabits(user_data.improvement_areas,
                           user_data.time_commitment, catalog)
    IN IF filtered_habits = <<>>
          THEN [status |-> "KeyError", recommendations |-> <<>>]
          ELSE [status |-> "returned",
                recommendations |->
                    HeadN(sort_values(filtered_habits, kind),
                          IF indices[1] = 0 THEN n_recommendations ELSE 1)]

\* recommend_habits(user_data, n_recommendations) of one build, with the
\* neighbour search's result: what the call returns, or KeyError
recommend_habits_call(user_data, indices, catalog, n_recommendations, kind) ==
    LET filtered_habits ==
            FilteredHabits(user_data.improvement_areas,
                           user_data.time_commitment, catalog)
    IN IF filtered_habits = <<>>
          THEN [status |-> "KeyError", recommendations |-> <<>>]
          ELSE [status |-> "returned",
                recommendations |->
                    HeadN(sort_values(filtered_habits, kind), n_recommendations)]

UserData(profile, improvement_areas, time_commitment) ==
    [age |-> profile.age, gender |-> profile.gender,
     existing_habits |-> profile.existing_habits,
     improvement_areas |-> improvement_areas,
     time_commitment |-> time_commitment,
     preferred_time |-> profile.preferred_time,
     barriers |-> profile.barriers]

Callers == {1, 2}

InitTwoUsers ==
    /\ habits = {}
    /\ next_habit_id = 1
    /\ habit_tracking = {}
    /\ next_tracking_id = 1
    /\ today = 0
    /\ writers = NoWriters
    /\ users = {}
    /\ \E catalog \in Catalogs, n \in {2, DefaultRecommendations},
          kind \in SortKinds,
          profile \in [Callers -> Profiles],
          areas \in [Callers -> {<<"Produktivnost">>, <<"Produktivnost", "Finansy">>}],
          commitment \in [Callers -> {Text5Minut, Text30Minut}] :
            /\ profile[1] = CHOOSE p \in Profiles : p.age = "18-25"
            /\ rec = [catalog |-> catalog, n_recommendations |-> n, kind |-> kind,
                      user_data |-> [c \in Callers |->
                          UserData(profile[c], areas[c], commitment[c])],
                      indices |-> [c \in Callers |-> <<>>],
                      result |-> [c \in Callers |-> NoCall]]

RecommendFor(c) ==
    /\ rec.result[c] = NoCall
    /\ \E indices \in Neighbours :
          rec' = [rec EXCEPT
                     !.indices[c] = indices,
                     !.result[c] =
                         recommend_habits_call(rec.user_data[c], indices,
                                               rec.catalog,
                                               rec.n_recommendations, rec.kind)]
    /\ UNCHANGED <<dbVars, writers>>

NextTwoUsers == \E c \in Callers : RecommendFor(c)

SpecTwoUsers == InitTwoUsers /\ [][NextTwoUsers]_vars

----------------------------------------------------------------------------
(* The aggregate completion rate of render_user_statistics                  *)
(* (src/frontend/profile.py) and of get_user_stats: a rate is kept as the   *)
(* fraction num / den of the percentage.                                    *)

\* habits and log entries of the user
MaxTotalHabits == 2
MaxCompletionCount == 70

\* the days that (total_habits * 30) counts per habit
TrackingDays == 30

\* min(100, x) of a fraction x
Min100(x) == IF x.num > 100 * x.den THEN [num |-> 100, den |-> 1] ELSE x

aggregate_completion_rate_Uncapped(completion_count, total_habits) ==
    [num |-> completion_count * 100, den |-> total_habits * TrackingDays]

\* completion_rate = 0
\* if total_habits > 0:
\*     completion_rate = min(100, (completion_count / (total_habits * 30)) * 100)
aggregate_completion_rate(completion_count, total_habits) ==
    IF total_habits > 0
       THEN Min100([num |-> completion_count * 100,
                    den |-> total_habits * TrackingDays])
       ELSE [num |-> 0, den |-> 1]

InitAggregate ==
    /\ habits = {}
    /\ next_habit_id = 1
    /\ habit_tracking = {}
    /\ next_tracking_id = 1
    /\ today = 0
    /\ writers = NoWriters
    /\ users = {}
    /\ \E total_habits \in 1..MaxTotalHabits,
          completion_count \in 0..MaxCompletionCount :
            rec = [status |-> "called", total_habits |-> total_habits,
                   completion_count |-> completion_count,
                   completion_rate |-> [num |-> 0, den |-> 1]]

render_user_statistics ==
    /\ rec.status = "called"
    /\ rec' = [rec EXCEPT
                  !.status = "returned",
                  !.completion_rate =
                      aggregate_completion_rate(rec.completion_count,
                                                rec.total_habits)]
    /\ UNCHANGED <<dbVars, writers>>

NextAggregate == render_user_statistics

SpecAggregate == InitAggregate /\ [][NextAggregate]_vars

----------------------------------------------------------------------------
(* HabitAnalyzer.analyze_habit (src/backend/ml_model.py)                    *)

\* h, m = map(int, time_str.split(':')); return h * 60 + m
time_to_minutes(time_str) ==
    ParseInt(BeforeFirst(time_str, {":"})) * 60 + ParseInt(AfterColon(time_str))

\* f"{h:02d}:{m:02d}" of h = minutes // 60 and m = minutes % 60
minutes_to_time(minutes) ==
    Pad2(minutes \div 60) \o <<":">> \o Pad2(minutes % 60)

RECURSIVE SumMinutes(_)
SumMinutes(times) ==
    IF times = <<>> THEN 0 ELSE Head(times) + SumMinutes(Tail(times))

ClusterCentre_RoundedUp(actual_times) ==
    (SumMinutes(actual_times) + Len(actual_times) - 1) \div Len(actual_times)

\* int(self.model.cluster_centers_[0][0]) after the fit of KMeans with one
\* cluster: the centre is the mean of the points, and int() drops its
\* fraction
ClusterCentre(actual_times) ==
    SumMinutes(actual_times) \div Len(actual_times)

\* the streak loop: the neighbours in sorted order at most 1440 apart
AnalyzerStreak(actual_times) ==
    LET sorted_times == SortSeq(actual_times, LAMBDA a, b : a < b)
    IN Cardinality({i \in 2..Len(sorted_times) :
                        sorted_times[i] - sorted_times[i - 1] <= 1440})

\* analyze_habit(habit_data): the streak and the recommended time of the
\* result (success_rate and avg_deviation are floating-point averages of
\* the deviations and are left out)
analyze_habit(habit_data) ==
    LET actual_times ==
            [i \in DOMAIN habit_data.actual_time |->
                time_to_minutes(habit_data.actual_time[i])]
    IN IF actual_times = <<>>
          THEN [streak |-> 0, recommended_time |-> habit_data.selected_time]
          ELSE [streak |-> AnalyzerStreak(actual_times),
                recommended_time |-> minutes_to_time(ClusterCentre(actual_times))]

\* the lists of completion times: up to MaxEntries times
CompletionTimes ==
    UNION {[1..n -> {Text0750, Text0800, Text0810, Text2359}] : n \in 0..MaxEntries}

\* the tracking data that holds the times as completed entries
CompletedEntries(times) ==
    [i \in DOMAIN times |-> [completed |-> 1, actual_time |-> times[i]]]

InitAnalyzer ==
    /\ habits = {}
    /\ next_habit_id = 1
    /\ habit_tracking = {}
    /\ next_tracking_id = 1
    /\ today = 0
    /\ writers = NoWriters
    /\ users = {}
    /\ \E times \in CompletionTimes, selected_time \in CurrentTimes :
          rec = [status |-> "called", actual_time |-> times,
                 selected_time |-> selected_time,
                 analysis |-> <<>>, optimal_time |-> <<>>]

\* both recommenders applied to the same times and the same selected time
AnalyzeAndRecommend ==
    /\ rec.status = "called"
    /\ rec' = [rec EXCEPT
                  !.status = "returned",
                  !.analysis = analyze_habit([selected_time |-> rec.selected_time,
                                              actual_time |-> rec.actual_time]),
                  !.optimal_time =
                      recommend_optimal_time(CompletedEntries(rec.actual_time),
                                             rec.selected_time)]
    /\ UNCHANGED <<dbVars, writers>>

NextAnalyzer == AnalyzeAndRecommend

SpecAnalyzer == InitAnalyzer /\ [][NextAnalyzer]_vars

----------------------------------------------------------------------------
(* What the two delete_habit functions return: cursor.rowcount > 0 after    *)
(* the last DELETE that the cursor has executed                             *)

\* cursor.rowcount of DELETE FROM table WHERE habit_id = ?
RowCount(table, habit_id) == Cardinality({r \in table : r.habit_id = habit_id})

\* delete_habit(habit_id): the last statement deletes from habits
delete_habit_success(habit_id) == RowCount(habits, habit_id) > 0

\* Database.delete_habit(habit_id): the last statement deletes from
\* habit_tracking
Database_delete_habit_success(habit_id) == RowCount(habit_tracking, habit_id) > 0

----------------------------------------------------------------------------
(* Database.get_streak *)

\* SELECT date, completed ... ORDER BY date DESC: the rows, latest date first
RECURSIVE OrderByDateDesc(_)
OrderByDateDesc(rows) ==
    IF rows = {} THEN <<>>
    ELSE LET first == CHOOSE r \in rows : \A q \in rows :
                          \/ r.date > q.date
                          \/ (r.date = q.date /\ r.tracking_id <= q.tracking_id)
         IN <<first>> \o OrderByDateDesc(rows \ {first})

\* for date, completed in tracking_data: count while the row is completed
\* and is today's or follows a counted row, break at the first that is not
RECURSIVE GetStreakLoop(_, _, _)
GetStreakLoop(tracking_data, i, streak) ==
    IF i > Len(tracking_data) THEN streak
    ELSE IF tracking_data[i].completed = 1
              /\ (tracking_data[i].date = today \/ streak > 0)
            THEN GetStreakLoop(tracking_data, i + 1, streak + 1)
            ELSE streak

\* Database.get_streak(habit_id, user_id)
Database_get_streak(habit_id, user_id) ==
    LET tracking_data == OrderByDateDesc(SelectAllLogs(user_id, habit_id))
    IN IF tracking_data = <<>> THEN 0
       ELSE GetStreakLoop(tracking_data, 1, 0)

----------------------------------------------------------------------------
(* The feature vector of a user: preprocess_data and preprocess_user_data *)

\* text.split(','): the pieces between the commas
RECURSIVE Split(_)
Split(text) ==
    IF \E i \in DOMAIN text : text[i] = ","
       THEN LET i == CHOOSE k \in DOMAIN text :
                        /\ text[k] = ","
                        /\ \A j \in 1..(k - 1) : text[j] # ","
            IN <<SubSeq(text, 1, i - 1)>> \o Split(SubSeq(text, i + 1, Len(text)))
       ELSE <<text>>

ElementsOf(seq) == {seq[i] : i \in DOMAIN seq}

\* The values of the model in sorted order, field by field: get_dummies and
\* MultiLabelBinarizer.fit make one column per value present, sorted
AgeOrder == <<"18-25", "26-35", "36-45", "45+", "<18">>
GenderOrder == <<"Drugoe", "Zhenskii", "Muzhskoi">>
TimeOrder == <<Text1Chas, Text15Minut, Option15Minut, Text30Minut, Text5Minut>>
PreferredTimeOrder == <<"Vecher", "Den", "Ne vazhno", "Noch", "Utro">>
LabelOrder == <<<<"A">>, <<"B">>, <<"C">>, <<"Y">>>>

\* the values present, sorted
SortedPresent(order, present) ==
    LET Present(v) == v \in present IN SelectSeq(order, Present)

\* the categories written in preprocess_user_data
AgeCategories == <<"18-25", "26-35", "36-45", "45+">>
GenderCategories == <<"Muzhskoi", "Zhenskii">>
PreferredTimeCategories == <<"Utro", "Den", "Vecher", "Ne vazhno">>

\* [f'{prefix}_{category}' for category in categories]
ColumnNames(prefix, categories) ==
    [i \in DOMAIN categories |-> <<prefix, categories[i]>>]

\* the labels of one multi-label field over the rows of the survey
LabelsOf(survey, field) ==
    UNION {ElementsOf(Split(row[field])) : row \in survey}

\* MultiLabelBinarizer.fit: classes_
Classes(survey, field) == SortedPresent(LabelOrder, LabelsOf(survey, field))

\* preprocess_data: the columns of the frame the model is fitted on, which
\* are its feature_names_in_
TrainingColumns(survey) ==
    ColumnNames("age", SortedPresent(AgeOrder, {row.age : row \in survey}))
    \o ColumnNames("gender",
                   SortedPresent(GenderOrder, {row.gender : row \in survey}))
    \o ColumnNames("existing", Classes(survey, "existing_habits"))
    \o ColumnNames("improve", Classes(survey, "improvement_areas"))
    \o ColumnNames("barrier", Classes(survey, "barriers"))
    \o ColumnNames("time",
                   SortedPresent(TimeOrder,
                                 {row.time_commitment : row \in survey}))
    \o ColumnNames("preferred_time",
                   SortedPresent(PreferredTimeOrder,
                                 {row.preferred_time : row \in survey}))

\* mlb.transform of one row and its frame: 1 for the classes among the
\* labels, labels that are no class are ignored
BinaryFrame(prefix, classes, labels) ==
    [i \in DOMAIN classes |->
        [name |-> <<prefix, classes[i]>>,
         value |-> IF classes[i] \in ElementsOf(labels) THEN 1 ELSE 0]]

\* a frame of zeros over the categories, 1 in the column of the value when
\* there is such a column
Dummies(prefix, categories, value) ==
    [i \in DOMAIN categories |->
        [name |-> <<prefix, categories[i]>>,
         value |-> IF categories[i] = value THEN 1 ELSE 0]]

\* pd.concat of the seven frames
CombinedFeatures(user_data, survey) ==
    Dummies("age", AgeCategories, user_data.age)
    \o Dummies("gender", GenderCategories, user_data.gender)
    \o BinaryFrame("existing", Classes(survey, "existing_habits"),
                   Split(user_data.existing_habits))
    \o BinaryFrame("improve", Classes(survey, "improvement_areas"),
                   Split(user_data.improvement_areas))
    \o BinaryFrame("barrier", Classes(survey, "barriers"),
                   Split(user_data.barriers))
    \o Dummies("time", TimeCommitmentCategories, user_data.time_commitment)
    \o Dummies("preferred_time", PreferredTimeCategories,
               user_data.preferred_time)

NamesOf(feature_df) == [i \in DOMAIN feature_df |-> feature_df[i].name]

\* for col in all_training_features: if col not in feature_df.columns:
\*     feature_df[col] = 0
WithMissingColumns(feature_df, all_training_features) ==
    LET Missing(col) == col \notin ElementsOf(NamesOf(feature_df))
        missing == SelectSeq(all_training_features, Missing)
    IN feature_df \o [i \in DOMAIN missing |-> [name |-> missing[i], value |-> 0]]

\* feature_df[all_training_features]: for each label in turn, the columns of
\* that name
RECURSIVE SelectColumns(_, _)
SelectColumns(feature_df, labels) ==
    IF labels = <<>> THEN <<>>
    ELSE LET Named(column) == column.name = Head(labels)
         IN SelectSeq(feature_df, Named) \o SelectColumns(feature_df, Tail(labels))

preprocess_user_data_NoReorder(user_data, survey) ==
    WithMissingColumns(CombinedFeatures(user_data, survey), TrainingColumns(survey))

\* preprocess_user_data(user_data), for the model fitted on the survey
preprocess_user_data(user_data, survey) ==
    LET all_training_features == TrainingColumns(survey)
    IN SelectColumns(WithMissingColumns(CombinedFeatures(user_data, survey),
                                        all_training_features),
                     all_training_features)

\* The rows the model's surveys are made of
Respondents ==
    {[age |-> "18-25", gender |-> "Zhenskii", existing_habits |-> <<"A">>,
      improvement_areas |-> <<"B">>, barriers |-> <<"C">>,
      time_commitment |-> Text5Minut, preferred_time |-> "Utro"],
     [age |-> "26-35", gender |-> "Drugoe",
      existing_habits |-> <<"A", ",", "B">>, improvement_areas |-> <<"A">>,
      barriers |-> <<"B", ",", "C">>,
      time_commitment |-> Text30Minut, preferred_time |-> "Vecher"],
     [age |-> "45+", gender |-> "Muzhskoi", existing_habits |-> <<"B">>,
      improvement_areas |-> <<"A", ",", "B">>, barriers |-> <<"A">>,
      time_commitment |-> Text1Chas, preferred_time |-> "Ne vazhno"]}

Surveys == (SUBSET Respondents) \ {{}}

\* The users whose vectors are built: values of the survey, values the model
\* was not fitted on, and an option of the preference form
NewUsers ==
    [age : {"18-25", "36-45", "<18"}, gender : {"Zhenskii", "Drugoe"},
     existing_habits : {<<"A">>, <<"A", ",", "Y">>},
     improvement_areas : {<<"B">>, <<"Y">>}, barriers : {<<"C">>},
     time_commitment : {Text5Minut, Option15Minut},
     preferred_time : {"Utro", "Noch"}]

InitPreprocess ==
    /\ habits = {}
    /\ next_habit_id = 1
    /\ habit_tracking = {}
    /\ next_tracking_id = 1
    /\ today = 0
    /\ writers = NoWriters
    /\ users = {}
    /\ \E user_data \in NewUsers, survey \in Surveys :
          rec = [status |-> "called", user_data |-> user_data,
                 survey |-> survey, feature_df |-> <<>>]

Preprocess ==
    /\ rec.status = "called"
    /\ rec' = [rec EXCEPT
                  !.status = "returned",
                  !.feature_df = preprocess_user_data(rec.user_data, rec.survey)]
    /\ UNCHANGED <<dbVars, writers>>

NextPreprocess == Preprocess

SpecPreprocess == InitPreprocess /\ [][NextPreprocess]_vars

----------------------------------------------------------------------------
(* The tracker page: one checkbox per habit, rerun when one has changed *)

MaxTrackerDay == 2
MaxTrackerHabits == 2
RunCycle == 2

TrackerUser == 1

\* The logs the page starts from: per habit none, one of yesterday or one
\* of today
LoggedWhen == {"never", "yesterday", "today"}

TrackerLogs(logged, now) ==
    {[tracking_id |-> h, habit_id |-> h, user_id |-> TrackerUser,
      date |-> IF logged[h] = "today" THEN now ELSE now - 1,
      completed |-> 1, actual_time |-> None] :
        h \in {k \in DOMAIN logged : logged[k] # "never"}}

RECURSIVE HabitsOfPage(_)
HabitsOfPage(n) ==
    IF n = 0 THEN {}
    ELSE InsertHabit(HabitsOfPage(n - 1), n, TrackerUser, QuickAddName, Text0800)

\* for habit in habits: the ids of the habits of the page
PageHabits == {habit.id : habit \in get_user_habits(TrackerUser)}

\* is_logged = len(get_habit_logs(user_id, habit_id, today)) > 0
is_logged(habit_id) ==
    get_habit_logs(TrackerUser, habit_id, <<today>>, NoArg, NoArg) # {}

\* st.checkbox(..., value=is_logged, key=key): the value the session holds
\* for the key, the default when it holds none
checked(habit_id) ==
    IF rec.widget[habit_id] = "unset" THEN is_logged(habit_id)
    ELSE rec.widget[habit_id] = "checked"

\* the checkboxes for which checked != is_logged
ChangedCheckboxes == {h \in PageHabits : checked(h) # is_logged(h)}

\* the first of them in the order of the page (latest habit first)
FirstChanged == CHOOSE h \in ChangedCheckboxes : \A k \in ChangedCheckboxes : k <= h

InitTracker ==
    /\ \E n \in 1..MaxTrackerHabits, now \in 1..MaxTrackerDay :
          \E logged \in [1..n -> LoggedWhen] :
            /\ habits = HabitsOfPage(n)
            /\ next_habit_id = n + 1
            /\ habit_tracking = TrackerLogs(logged, now)
            /\ next_tracking_id = n + 1
            /\ today = now
            /\ rec = [status |-> "idle", script_run |-> 0,
                      widget |-> [h \in 1..n |-> "unset"]]
    /\ writers = NoWriters
    /\ users = {}

\* the user clicks the checkbox of a habit of the rendered page: the session
\* holds the new value and the script is run again
ToggleCheckbox(habit_id) ==
    /\ rec.status = "idle"
    /\ habit_id \in PageHabits
    /\ rec' = [rec EXCEPT
                  !.status = "rerun",
                  !.widget[habit_id] =
                      IF checked(habit_id) THEN "unchecked" ELSE "checked"]
    /\ UNCHANGED <<dbVars, writers>>

\* one run of render_tracker: up to the first changed checkbox, which logs
\* the habit when it is checked and calls st.rerun() in both cases, or to
\* the end of the page.  After the log the checkbox has another default and
\* another label: the session keeps the value or takes the widget for a new
\* one.
render_tracker ==
    /\ rec.status = "rerun"
    /\ IF ChangedCheckboxes = {}
          THEN /\ rec' = [rec EXCEPT !.status = "idle",
                                     !.script_run = (@ + 1) % RunCycle]
               /\ UNCHANGED dbVars
          ELSE IF checked(FirstChanged)
                  THEN /\ habit_tracking' =
                              Upsert(habit_tracking, next_tracking_id,
                                     FirstChanged, TrackerUser, today, 1, None)
                       /\ next_tracking_id' = NextTrackingId(habit_tracking')
                       /\ \E value \in {"checked", "unset"} :
                             rec' = [rec EXCEPT
                                        !.script_run = (@ + 1) % RunCycle,
                                        !.widget[FirstChanged] = value]
                       /\ UNCHANGED <<habits, next_habit_id, today, users>>
                  ELSE /\ rec' = [rec EXCEPT !.script_run = (@ + 1) % RunCycle]
                       /\ UNCHANGED dbVars
    /\ UNCHANGED writers

NextTracker ==
    \/ \E h \in 1..MaxTrackerHabits : ToggleCheckbox(h)
    \/ render_tracker

SpecTracker == InitTracker /\ [][NextTracker]_vars

\* Streamlit runs the script whenever a rerun is requested
SpecTrackerFair == SpecTracker /\ WF_vars(render_tracker)

----------------------------------------------------------------------------
(* The manage-habits view: the delete button and its confirmation *)

MaxManagedHabits == 3

NoButton == [button |-> "none", habit |-> 0]

\* st.button(..., key=f"{name}_{habit_id}"): True in the run that the click
\* of this button has started, False in every other run
button(name, habit_id) == rec.clicked = [button |-> name, habit |-> habit_id]

\* the habits of the view, each with or without a log of today
InitDeleteView ==
    /\ \E n \in 1..MaxManagedHabits, now \in 1..MaxTrackerDay :
          \E logged \in [1..n -> {"never", "today"}] :
            /\ habits = HabitsOfPage(n)
            /\ next_habit_id = n + 1
            /\ habit_tracking = TrackerLogs(logged, now)
            /\ next_tracking_id = n + 1
            /\ today = now
    /\ rec = [status |-> "idle", clicked |-> NoButton, confirm_rendered |-> 0]
    /\ writers = NoWriters
    /\ users = {}

\* the user clicks a button that the last run has rendered
Click(name, habit_id) ==
    /\ rec.status = "idle"
    /\ habit_id \in PageHabits
    /\ name \in {"confirm_delete", "cancel_delete"}
          => rec.confirm_rendered = habit_id
    /\ rec' = [rec EXCEPT !.status = "rerun",
                          !.clicked = [button |-> name, habit |-> habit_id]]
    /\ UNCHANGED <<dbVars, writers>>

\* one run of render_manage_habits, the forms aside: the confirm and cancel
\* buttons are created in the block of the delete button, in the runs in
\* which the delete button returns True
render_manage_habits ==
    /\ rec.status = "rerun"
    /\ IF \E h \in PageHabits : button("delete", h)
          THEN LET h == CHOOSE k \in PageHabits : button("delete", k)
               IN IF button("confirm_delete", h)
                     THEN /\ habit_tracking' = DeleteLogs(habit_tracking, h)
                          /\ habits' = DeleteHabitRow(habits, h)
                          /\ rec' = [rec EXCEPT !.clicked = NoButton,
                                                !.confirm_rendered = 0]
                          /\ UNCHANGED <<next_habit_id, next_tracking_id,
                                         today, users>>
                     ELSE IF button("cancel_delete", h)
                             THEN /\ rec' = [rec EXCEPT !.clicked = NoButton,
                                                        !.confirm_rendered = 0]
                                  /\ UNCHANGED dbVars
                             ELSE /\ rec' = [status |-> "idle",
                                             clicked |-> NoButton,
                                             confirm_rendered |-> h]
                                  /\ UNCHANGED dbVars
          ELSE /\ rec' = [status |-> "idle", clicked |-> NoButton,
                          confirm_rendered |-> 0]
               /\ UNCHANGED dbVars
    /\ UNCHANGED writers

NextDeleteView ==
    \/ \E h \in 1..MaxManagedHabits : Click("delete", h)
    \/ \E h \in 1..MaxManagedHabits : Click("confirm_delete", h)
    \/ \E h \in 1..MaxManagedHabits : Click("cancel_delete", h)
    \/ render_manage_habits

SpecDeleteView == InitDeleteView /\ [][NextDeleteView]_vars

\* Streamlit runs the script whenever a rerun is requested
SpecDeleteViewFair == SpecDeleteView /\ WF_vars(render_manage_habits)

----------------------------------------------------------------------------
(* The profile: update_user_profile and the forms that call it *)

\* field_mapping: the column each profile field is written to
field_mapping ==
    [full_name |-> "name", email |-> "age", bio |-> "existing_habits",
     notification_settings |-> "improvement_areas"]

\* the keys of kwargs that field_mapping has
MappedFields(kwargs) == DOMAIN kwargs \cap DOMAIN field_mapping

\* UPDATE users SET <column> = ?, ... WHERE user_id = ?
UpdateUser(table, user_id, kwargs) ==
    LET Written(column) ==
            {key \in MappedFields(kwargs) : field_mapping[key] = column}
        Updated(r) ==
            [column \in DOMAIN r |->
                IF Written(column) # {}
                   THEN kwargs[CHOOSE key \in Written(column) : TRUE]
                   ELSE r[column]]
    IN {IF r.user_id = user_id THEN Updated(r) ELSE r : r \in table}

\* update_user_profile(user_id, **kwargs): False when no field is mapped,
\* rowcount > 0 of the UPDATE otherwise
update_user_profile(user_id, kwargs) ==
    /\ users' = IF MappedFields(kwargs) = {} THEN users
                ELSE UpdateUser(users, user_id, kwargs)
    /\ rec' = [status |-> "update_user_profile", user_id |-> user_id,
               result |-> /\ MappedFields(kwargs) # {}
                          /\ SelectUserById(user_id) # {}]
    /\ UNCHANGED <<habits, next_habit_id, habit_tracking, next_tracking_id,
                   today, writers>>

\* The texts of the profile form and of the settings form
FullNames == Usernames \cup {"Alice Smith"}
ProfileEmails == Emails \cup {"b@example.org"}
Bios == {"bio"}
NotificationSettings == {"{}"}

\* render_profile_info: the form is submitted by the logged-in user with
\* full_name, email and bio
edit_profile_form(user_id) ==
    /\ SelectUserById(user_id) # {}
    /\ \E kwargs \in [full_name : FullNames, email : ProfileEmails, bio : Bios] :
          update_user_profile(user_id, kwargs)

\* the settings form is submitted with notification_settings
notification_form(user_id) ==
    /\ SelectUserById(user_id) # {}
    /\ \E kwargs \in [notification_settings : NotificationSettings] :
          update_user_profile(user_id, kwargs)

NextProfile ==
    \/ \E username \in Usernames, email \in Emails, password \in Passwords :
          create_user(username, email, password)
    \/ \E u \in Users : edit_profile_form(u)
    \/ \E u \in Users : notification_form(u)

SpecProfile == Init /\ [][NextProfile]_vars

----------------------------------------------------------------------------
(* Properties *)

\* The dates on which the user's habit is logged as completed
CompletedDates(user_id, habit_id) ==
    {r.date : r \in {q \in habit_tracking :
        q.user_id = user_id /\ q.habit_id = habit_id /\ q.completed = 1}}

\* The number of consecutive calendar days of S that end with day d
RunEndingAt(S, d) ==
    CHOOSE k \in 1..Cardinality(S) :
        /\ \A j \in 0..(k - 1) : (d - j) \in S
        /\ (d - k) \notin S

\* The length of the longest run of consecutive calendar days in S
LongestRun(S) ==
    CHOOSE k \in 1..Cardinality(S) :
        /\ \E d \in S : RunEndingAt(S, d) = k
        /\ \A d \in S : RunEndingAt(S, d) <= k

LastOf(S) == CHOOSE d \in S : \A e \in S : e <= d

NoGaps(S) == \A d \in S : d = LastOf(S) \/ (d + 1) \in S

\* C1: for every non-empty set of completed dates of a user's habit,
\* max_streak is the length of the longest run of consecutive calendar
\* days in the set; for the dates {D, D+1, D+3, D+4} it is 2.
C1_MaxStreakIsLongestRun ==
    \A u \in Users, h \in HabitIds :
        LET S == CompletedDates(u, h)
        IN S # {} =>
            /\ get_streak_data(u, h).max_streak = LongestRun(S)
            /\ \A d \in S : S = {d, d + 1, d + 3, d + 4}
                    => get_streak_data(u, h).max_streak = 2

C1_Witness ==
    /\ CompletedDates(1, 1) = {0, 1, 3, 4}
    /\ get_streak_data(1, 1).max_streak = 2

\* C2: when the completed dates have no gaps, max_streak is the number of
\* dates.
C2_NoGapsMaxStreakIsCount ==
    \A u \in Users, h \in HabitIds :
        LET S == CompletedDates(u, h)
        IN (S # {} /\ NoGaps(S))
            => get_streak_data(u, h).max_streak = Cardinality(S)

C2_Witness ==
    /\ CompletedDates(1, 1) = {1, 2, 3}
    /\ get_streak_data(1, 1).max_streak = 3

\* C3: with last the most recent completed date, current_streak is the
\* length of the run of consecutive days ending at last when today - last
\* is 0 or 1, and 0 for every other value of today - last; no streak
\* counts across a gap.
C3_CurrentStreakClaim ==
    \A u \in Users, h \in HabitIds :
        LET S == CompletedDates(u, h)
            r == get_streak_data(u, h)
        IN S # {} =>
            /\ r.current_streak =
                  IF (today - LastOf(S)) \in {0, 1}
                     THEN RunEndingAt(S, LastOf(S)) ELSE 0
            /\ r.max_streak <= LongestRun(S)

\* C4: a single completed date gives max_streak 1, and current_streak 1
\* when the date is today or yesterday and 0 for any other date.
C4_SingleDateClaim ==
    \A u \in Users, h \in HabitIds :
        LET S == CompletedDates(u, h)
            r == get_streak_data(u, h)
        IN Cardinality(S) = 1 =>
            /\ r.max_streak = 1
            /\ r.current_streak =
                  IF LastOf(S) \in {today, today - 1} THEN 1 ELSE 0

\* C5: get_streak_data returns {current_streak: 0, max_streak: 0} whenever
\* the user's habit has no completed date: no log, an unknown habit id, or
\* only entries with completed = 0.
C5_NoCompletedDateZeroStreaks ==
    \A u \in Users, h \in HabitIds :
        CompletedDates(u, h) = {}
            => get_streak_data(u, h) = [current_streak |-> 0, max_streak |-> 0]

C5_Witness ==
    \E u \in Users, h \in HabitIds :
        /\ \A r \in habits : r.habit_id # h
        /\ SelectAllLogs(u, h) # {}
        /\ CompletedDates(u, h) = {}
        /\ get_streak_data(u, h) = [current_streak |-> 0, max_streak |-> 0]

\* No reader returns a log entry of the habit
NoLogReturned(habit_id) ==
    /\ \A u \in Users :
        /\ get_habit_logs(u, habit_id, NoArg, NoArg, NoArg) = {}
        /\ \A d \in RecentDays : get_habit_logs(u, habit_id, <<d>>, NoArg, NoArg) = {}
        /\ get_streak_data(u, habit_id) = [current_streak |-> 0, max_streak |-> 0]
        /\ Database_get_tracking_data(habit_id, u) = {}
        /\ \A r \in get_user_stats_logs(u) : r.habit_id # habit_id
    /\ get_habit_entries(habit_id) = {}

\* C6: when delete_habit(h) or Database.delete_habit(h) returns, no reader
\* returns a log entry of habit h, whatever creations and upserts came
\* before.
C6_DeleteRemovesLogs ==
    [][\A h \in HabitIds :
          (delete_habit(h) \/ Database_delete_habit(h)) => NoLogReturned(h)']_vars

\* a deletion has removed the entries of one habit and left those of another
C6_Witness ==
    \E h \in HabitIds :
        /\ NoLogReturned(h)
        /\ Cardinality(habit_tracking) = 1
        /\ next_tracking_id = 3
        /\ habits = {} /\ next_habit_id = 2

C8_LastWriterWins ==
    (\A w \in Writers : writers[w].pc = "done") =>
        /\ Cardinality(WriterRows) = 1
        /\ \E w \in Writers : \A r \in WriterRows :
              /\ r.completed = Bool2Int(writers[w].completed)
              /\ r.actual_time = writers[w].actual_time

LeqRate(a, b) == a.num * b.den <= b.num * a.den

Hundred == [num |-> 100, den |-> 1]

\* C9: over the fixed window the completion percentage of a habit does not
\* decrease when add_habit_log adds an entry for a further day of the
\* window, and it never exceeds 100.
C9_CompletionRateMonotoneCapped ==
    [][\A u \in Users, h \in HabitIds :
          /\ LeqRate(completion_rate(u, h)', Hundred)
          /\ \A d \in StatsDays, c \in BOOLEAN :
                (/\ StatsWindow.start_date <= d /\ d <= StatsWindow.end_date
                 /\ SelectByKey(habit_tracking, h, u, d) = {}
                 /\ add_habit_log(u, h, d, c, None))
                    => LeqRate(completion_rate(u, h), completion_rate(u, h)')]_vars

\* every day of the window is logged: the percentage is 100
C9_Witness ==
    /\ today >= WindowSpan
    /\ completion_rate(1, 1) = [num |-> 100 * (WindowSpan + 1), den |-> WindowSpan + 1]
    /\ \E r \in habit_tracking : r.date < StatsWindow.start_date

\* the min_time values of a list of recommendations
MinTimesOf(recommendations) ==
    [i \in DOMAIN recommendations |-> recommendations[i].min_time]

\* C10: for the 15-minute bucket and a tag matching three catalog habits
\* with minimum times 5, 10 and 20, recommend_habits returns them in the
\* order 10, 20, 5.
C10_RankingFor15Minutes ==
    (/\ rec.status \in {"returned", "KeyError"}
     /\ rec.time_commitment = Text15Minut
     /\ rec.improvement_areas = <<"Produktivnost">>
     /\ rec.n_recommendations = DefaultRecommendations
     /\ Len(rec.catalog) = 3
     /\ \A i \in 1..3 : rec.catalog[i].category = "Produktivnost"
     /\ \E i, j \in 1..3 : /\ i < j
                           /\ rec.catalog[i].name = "b10"
                           /\ rec.catalog[j].name = "c20")
        => /\ rec.status = "returned"
           /\ MinTimesOf(rec.recommendations) = <<10, 20, 5>>

\* the minutes of a time-commitment bucket of get_time_commitment_options
CommittedMinutes(time_commitment) ==
    CASE time_commitment \in {Text5Minut, Option5Minut} -> 5
      [] time_commitment \in {Text15Minut, Option15Minut} -> 15
      [] time_commitment \in {Text30Minut, Option30Minut} -> 30
      [] time_commitment \in {Text1Chas, Option1Chas} -> 60

AreasOf(improvement_areas) == {improvement_areas[i] : i \in DOMAIN improvement_areas}

\* the catalog rows that pass the category/time filter of the call
PassingRows(improvement_areas, time_commitment, catalog) ==
    {i \in DOMAIN catalog :
        /\ catalog[i].category \in AreasOf(improvement_areas)
        /\ MinTime(catalog[i].time_required) <= TimeMins(time_commitment) + 5}

\* C11 as claimed: when the filter is non-empty, every returned habit is of
\* one of the user's improvement areas and takes at most the committed
\* minutes + 5, the list is in non-decreasing order of
\* |min_time - committed minutes|, and it has at most n_recommendations
\* entries.
C11_FilteredAndRanked ==
    (/\ rec.status \in {"returned", "KeyError"}
     /\ PassingRows(rec.improvement_areas, rec.time_commitment, rec.catalog) # {})
    => LET committed == CommittedMinutes(rec.time_commitment)
           out == rec.recommendations
       IN /\ rec.status = "returned"
          /\ \A i \in DOMAIN out :
                /\ out[i].category \in AreasOf(rec.improvement_areas)
                /\ MinTime(out[i].time_required) <= committed + 5
          /\ \A i \in 1..(Len(out) - 1) :
                Abs(MinTime(out[i].time_required) - committed)
                    <= Abs(MinTime(out[i + 1].time_required) - committed)
          /\ Len(out) <= rec.n_recommendations

\* catalog rows whose time_required text contains the number, the first n
FallbackRows(catalog, number, n) ==
    LET HasNumber(row) == Contains(Str(number), row.time_required)
        by_text == HeadN(SelectSeq(catalog, HasNumber), n)
    IN IF by_text # <<>> THEN by_text ELSE HeadN(catalog, n)

\* C12 as claimed: when no catalog row passes the filter, recommend_habits
\* returns, without raising, the rows whose time-required text contains the
\* committed-minutes number, limited to N, and the first N rows of the
\* catalog when there is none.
C12_FallbackReturned ==
    (/\ rec.status \in {"returned", "KeyError"}
     /\ PassingRows(rec.improvement_areas, rec.time_commitment, rec.catalog) = {})
    => /\ rec.status = "returned"
       /\ LET expected == FallbackRows(rec.catalog, TimeMins(rec.time_commitment),
                                       rec.n_recommendations)
          IN /\ Len(rec.recommendations) = Len(expected)
             /\ \A i \in DOMAIN expected :
                   rec.recommendations[i].name = expected[i].name

\* the minutes since midnight of the valid 'HH:MM' actual times of the
\* completed entries
ValidMinutes(tracking_data) ==
    LET Valid(entry) ==
            /\ entry.completed # 0
            /\ entry.actual_time # <<>>
            /\ StrpTime(entry.actual_time) # <<>>
        valid == SelectSeq(tracking_data, Valid)
    IN [i \in DOMAIN valid |->
            StrpTime(valid[i].actual_time)[1].hour * 60
                + StrpTime(valid[i].actual_time)[1].minute]

RECURSIVE SumSeq(_)
SumSeq(seq) == IF seq = <<>> THEN 0 ELSE Head(seq) + SumSeq(Tail(seq))

\* the mean by integer division, and 'HH:MM' of minutes since midnight
MeanMinutes(tracking_data) ==
    SumSeq(ValidMinutes(tracking_data)) \div Len(ValidMinutes(tracking_data))

FormatHHMM(minutes) == Pad2(minutes \div 60) \o <<":">> \o Pad2(minutes % 60)

MinutesOfText(text) == StrpTime(text)[1].hour * 60 + StrpTime(text)[1].minute

\* the mean when it differs from the current time by more than 120 minutes,
\* the current time otherwise
MeanOrCurrent(tracking_data, current) ==
    IF Abs(MeanMinutes(tracking_data) - MinutesOfText(current)) > 120
       THEN FormatHHMM(MeanMinutes(tracking_data))
       ELSE current

\* C13 as claimed: whenever the completed entries have a mean, the mean is
\* returned exactly when it differs from the current time by more than 120
\* minutes, and the current time otherwise.
C13_MeanOrCurrent ==
    (rec.status = "returned" /\ Len(ValidMinutes(rec.tracking_data)) >= 1)
    => rec.result = MeanOrCurrent(rec.tracking_data, rec.current_selected_time)

\* C13: with at least 3 completed entries that have a valid actual time,
\* recommend_optimal_time returns the integer-division mean of those times
\* exactly when the mean differs from the current preferred time by more
\* than 120 minutes, and the current preferred time otherwise.
C13_MeanOrCurrentFromThreeEntries ==
    (rec.status = "returned" /\ Len(ValidMinutes(rec.tracking_data)) >= 3)
    => rec.result = MeanOrCurrent(rec.tracking_data, rec.current_selected_time)

\* times 08:00, 08:10, 07:50 and the current time 10:30: 08:00 is returned
C13_Witness ==
    /\ rec.status = "returned"
    /\ rec.tracking_data = <<[completed |-> 1, actual_time |-> Text0800],
                             [completed |-> 1, actual_time |-> Text0810],
                             [completed |-> 1, actual_time |-> Text0750]>>
    /\ rec.current_selected_time = Text1030
    /\ rec.result = Text0800

\* C14 as claimed: with fewer than 3 entries that are completed and have an
\* actual time, the current preferred time is returned unchanged.
C14_FewerThanThreeUnchanged ==
    (/\ rec.status = "returned"
     /\ Len(ActualTimesOf(rec.tracking_data)) < 3)
    => rec.result = rec.current_selected_time

UniqueUsernames ==
    \A r, q \in users : r.name = q.name => r = q

\* C15 as claimed: create_user with a username that a user already has
\* returns None and leaves the users unchanged, so no two users ever share
\* a username.
C15_DuplicateUsernameRejected ==
    /\ []UniqueUsernames
    /\ [][\A username \in Usernames, email \in Emails, password \in Passwords :
            (create_user(username, email, password)
                /\ SelectUserByName(username) # {})
            => (rec'.result = NotFound /\ users' = users)]_vars

\* C16 as claimed: the lookups of a user or a habit that does not exist
\* return None or an empty list.
C16_NotFoundIsEmpty ==
    /\ \A user_id \in Users :
          SelectUserById(user_id) = {}
          => /\ get_user_by_id(user_id) = NotFound
             /\ get_user_data(user_id) = NotFound
             /\ get_user_habits(user_id) = {}
    /\ \A username \in Usernames :
          SelectUserByName(username) = {}
          => get_user_by_username(username) = NotFound
    /\ \A habit_id \in HabitIds :
          (\A r \in habits : r.habit_id # habit_id)
          => /\ Database_get_habit(habit_id) = NotFound
             /\ \A user_id \in Users :
                   get_habit_logs(user_id, habit_id, NoArg, NoArg, NoArg) = {}

\* a text that is a time of the format '%H:%M'
ValidHHMM(text) == StrpTime(text) # <<>>

\* C17 as claimed: an edit whose time text is not a valid HH:MM value, and
\* a creation whose name is empty, leave the habits unchanged.
C17_InvalidInputRejected ==
    [][/\ \A h \in HabitIds, name \in HabitNames, text \in TimeTexts :
             (save_changes(h, name, text) /\ ~ValidHHMM(text))
             => (habits' = habits /\ rec'.status = "error")
       /\ \A u \in Users, time \in TimeInputs :
             detailed_habit_form(u, "", time)
             => (habits' = habits /\ next_habit_id' = next_habit_id
                 /\ rec'.status = "error")]_vars

\* C18 as claimed: every entry that add_habit_log has written is returned
\* by get_habit_logs and by get_habit_entries, counts in the streak data
\* when it is completed, and is among the logs that get_user_stats counts
\* for the habit's owner.
C18_LogVisibleToAllReaders ==
    \A r \in habit_tracking :
        /\ \E e \in get_habit_logs(r.user_id, r.habit_id, NoArg, NoArg, NoArg) :
              e.date = r.date /\ e.completed = (r.completed = 1)
        /\ r.completed = 1 => get_streak_data(r.user_id, r.habit_id).max_streak >= 1
        /\ \E e \in get_habit_entries(r.habit_id) : e.date = r.date
        /\ (\E h \in habits : h.habit_id = r.habit_id /\ h.user_id = r.user_id)
           => \E e \in get_user_stats_logs(r.user_id) :
                 e.habit_id = r.habit_id /\ e.date = r.date

\* C19: two users with the same improvement areas and the same time
\* commitment, served from the same catalog with the same
\* n_recommendations, get the same recommendations, whatever their other
\* answers and whatever the neighbour search returned.
C19_SameInputsSameRecommendations ==
    (/\ \A c \in Callers : rec.result[c] # NoCall
     /\ rec.user_data[1].improvement_areas = rec.user_data[2].improvement_areas
     /\ rec.user_data[1].time_commitment = rec.user_data[2].time_commitment)
    => rec.result[1] = rec.result[2]

\* two users of different age, gender, habits, barriers and preferred time,
\* with different neighbours, have been given the same list of two habits
\* of equal time_diff
C19_Witness ==
    /\ \A c \in Callers : rec.result[c] # NoCall
    /\ rec.user_data[1].improvement_areas = rec.user_data[2].improvement_areas
    /\ rec.user_data[1].time_commitment = rec.user_data[2].time_commitment
    /\ rec.user_data[1].age # rec.user_data[2].age
    /\ rec.user_data[1].barriers # rec.user_data[2].barriers
    /\ rec.indices[1] # rec.indices[2]
    /\ rec.result[1].status = "returned"
    /\ Len(rec.result[1].recommendations) = 2
    /\ rec.result[1].recommendations[1].time_diff
          = rec.result[1].recommendations[2].time_diff
    /\ rec.result[1] = rec.result[2]

\* fractions compared by cross-multiplication (denominators are positive)
SameRate(a, b) == a.num * b.den = b.num * a.den

\* C20: the aggregate completion rate is total_logged_events /
\* (habit_count * 30) * 100 when that is at most 100 and 100 otherwise, and
\* so lies between 0 and 100, for every number of habits >= 1 and every
\* number of log entries.
C20_AggregateRateCapped ==
    rec.status = "returned"
    => LET rate == rec.completion_rate
           events == rec.completion_count
           days == rec.total_habits * 30
       IN /\ rate.den > 0
          /\ IF events <= days
                THEN SameRate(rate, [num |-> events * 100, den |-> days])
                ELSE SameRate(rate, [num |-> 100, den |-> 1])
          /\ 0 <= rate.num
          /\ rate.num <= 100 * rate.den

\* more log entries than habit_count * 30: the rate is capped at 100
C20_Witness ==
    /\ rec.status = "returned"
    /\ rec.completion_count > rec.total_habits * 30
    /\ SameRate(rec.completion_rate, [num |-> 100, den |-> 1])

MeanFarFromSelected ==
    Abs(SumSeq([i \in DOMAIN rec.actual_time |-> MinutesOfText(rec.actual_time[i])])
            \div Len(rec.actual_time)
        - MinutesOfText(rec.selected_time)) > 120

HabitExists(habit_id) == \E r \in habits : r.habit_id = habit_id

\* C22 as claimed: delete_habit and Database.delete_habit return true
\* exactly when a habit of the id existed before the call, with or without
\* log entries.
C22_DeleteReturnsExistence ==
    [][\A h \in HabitIds :
          /\ delete_habit(h) => (delete_habit_success(h) = HabitExists(h))
          /\ Database_delete_habit(h)
                => (Database_delete_habit_success(h) = HabitExists(h))]_vars

----------------------------------------------------------------------------
\* C23: only dates whose entry has completed = 1 count.  When add_habit_log
\* writes completed = False for a date, the entry of that date is uncompleted
\* afterwards and the date is no completed date; and whenever a date has an
\* uncompleted entry, max_streak is the longest run and current_streak is
\* nothing or the last run of the other completed dates, and every entry that
\* Database.get_streak counts is a completed one.
StreakWithout(S, data) ==
    IF S = {}
       THEN data = [current_streak |-> 0, max_streak |-> 0]
       ELSE /\ data.max_streak = LongestRun(S)
            /\ data.current_streak \in {0, RunEndingAt(S, LastOf(S))}

CountedAreCompleted(habit_id, user_id) ==
    LET tracking_data == OrderByDateDesc(SelectAllLogs(user_id, habit_id))
    IN /\ Database_get_streak(habit_id, user_id) <= Len(tracking_data)
       /\ \A i \in 1..Database_get_streak(habit_id, user_id) :
             tracking_data[i].completed = 1

UncompletedDates(user_id, habit_id) ==
    {r.date : r \in {q \in SelectAllLogs(user_id, habit_id) : q.completed = 0}}

C23_UncompletedNeverCounts ==
    /\ [][\A d \in StreakDays :
             add_habit_log(1, 1, d, FALSE, None)
                => /\ d \in UncompletedDates(1, 1)'
                   /\ d \notin CompletedDates(1, 1)']_vars
    /\ [](\A d \in UncompletedDates(1, 1) :
             /\ StreakWithout(CompletedDates(1, 1) \ {d}, get_streak_data(1, 1))
             /\ CountedAreCompleted(1, 1))

\* the entry of day 1 is uncompleted between the completed days 0 and 2, and
\* Database.get_streak has counted today's entry
C23_Witness ==
    /\ \E r \in habit_tracking : r.date = 1 /\ r.completed = 0
    /\ CompletedDates(1, 1) = {0, 2}
    /\ today = 2
    /\ get_streak_data(1, 1) = [current_streak |-> 1, max_streak |-> 1]
    /\ Database_get_streak(1, 1) = 1
    /\ next_tracking_id = 4

----------------------------------------------------------------------------
\* C24: recommend_habits converts the four time-commitment buckets to 5, 15,
\* 30 and 60 minutes, each bucket to its own value, for the buckets of the
\* survey and for the options of get_time_commitment_options alike.
BucketMinutes == <<5, 15, 30, 60>>

C24_EachBucketItsOwnMinutes ==
    rec.status \in {"returned", "KeyError"}
       => \A i \in DOMAIN BucketMinutes :
             rec.time_commitment \in {TimeCommitmentCategories[i],
                                      get_time_commitment_options[i]}
                => TimeMins(rec.time_commitment) = BucketMinutes[i]

----------------------------------------------------------------------------
\* C25: the feature vector preprocess_user_data returns has exactly the
\* columns the model was trained on, in the training order; every column that
\* is 1 is the column of a value the user gave, so a value the model has no
\* column for sets no column to 1 and adds no column.
UserColumns(user_data) ==
    {<<"age", user_data.age>>, <<"gender", user_data.gender>>,
     <<"time", user_data.time_commitment>>,
     <<"preferred_time", user_data.preferred_time>>}
    \cup {<<"existing", l>> : l \in ElementsOf(Split(user_data.existing_habits))}
    \cup {<<"improve", l>> : l \in ElementsOf(Split(user_data.improvement_areas))}
    \cup {<<"barrier", l>> : l \in ElementsOf(Split(user_data.barriers))}

C25_TrainingColumnsInOrder ==
    rec.status = "returned"
       => /\ NamesOf(rec.feature_df) = TrainingColumns(rec.survey)
          /\ \A i \in DOMAIN rec.feature_df :
                /\ rec.feature_df[i].value \in {0, 1}
                /\ rec.feature_df[i].value = 1
                      => rec.feature_df[i].name \in UserColumns(rec.user_data)

\* a user of an age, a label, a time commitment and a preferred time that the
\* model has no column for, and a known area that sets its column
C25_Witness ==
    /\ rec.status = "returned"
    /\ rec.user_data.age = "<18"
    /\ rec.user_data.existing_habits = <<"A", ",", "Y">>
    /\ rec.user_data.time_commitment = Option15Minut
    /\ rec.user_data.preferred_time = "Noch"
    /\ Cardinality(rec.survey) = 2
    /\ \E i \in DOMAIN rec.feature_df :
          /\ rec.feature_df[i].name = <<"improve", <<"B">>>>
          /\ rec.feature_df[i].value = 1
    /\ \E i \in DOMAIN rec.feature_df :
          rec.feature_df[i].name = <<"gender", "Drugoe">>

----------------------------------------------------------------------------
\* C26: add_habit_log is idempotent and local.  After a call, the same call
\* again leaves the log as it is; the entries of every other (user, habit,
\* date) key are the same before and after the call, and so is every habit.
\* (A call leaves the entry it names with the values it names, so the calls
\* of a step are those that the entries after the step name.)
OtherEntries(table, user_id, habit_id, date) ==
    {r \in table :
        ~(r.user_id = user_id /\ r.habit_id = habit_id /\ r.date = date)}

C26_AddHabitLogIdempotentLocal ==
    [][\A r \in habit_tracking' :
          add_habit_log(r.user_id, r.habit_id, r.date, r.completed = 1,
                        r.actual_time)
             => /\ Upsert(habit_tracking', next_tracking_id', r.habit_id,
                          r.user_id, r.date, r.completed, r.actual_time)
                      = habit_tracking'
                /\ OtherEntries(habit_tracking', r.user_id, r.habit_id, r.date)
                      = OtherEntries(habit_tracking, r.user_id, r.habit_id, r.date)
                /\ Cardinality(SelectByKey(habit_tracking', r.habit_id,
                                           r.user_id, r.date)) = 1
                /\ habits' = habits]_vars

\* two entries of one habit for different dates, one of them not completed
C26_Witness ==
    /\ Cardinality(habit_tracking) = 2
    /\ \E r, q \in habit_tracking :
          /\ r.habit_id = q.habit_id
          /\ r.user_id = q.user_id
          /\ r.date # q.date
          /\ r.completed = 0
          /\ q.completed = 1

----------------------------------------------------------------------------
\* C27: for every log that add_habit_log calls can build and for every value
\* of today, get_streak_data returns 0 <= current_streak <= max_streak.
C27_CurrentWithinMax ==
    \A u \in Users, h \in HabitIds :
        /\ 0 <= get_streak_data(u, h).current_streak
        /\ get_streak_data(u, h).current_streak <= get_streak_data(u, h).max_streak

\* the current streak is the longest one, after a shorter one
C27_Witness ==
    /\ CompletedDates(1, 1) = {0, 2, 3}
    /\ today = 4
    /\ get_streak_data(1, 1) = [current_streak |-> 2, max_streak |-> 2]

----------------------------------------------------------------------------
\* C28: in the tracker page, after any checkbox toggle the page reaches a
\* render in which every checkbox has the value of the logged status and no
\* rerun is requested.
TrackerStable ==
    /\ rec.status = "idle"
    /\ \A h \in PageHabits : checked(h) = is_logged(h)

C28_ToggleLeadsToStableRender ==
    (rec.status = "rerun") ~> TrackerStable

----------------------------------------------------------------------------
\* C29: in the manage-habits view, when the user has clicked the delete
\* button of a habit and then clicks the confirm button, the habit is
\* deleted and it is not listed on the render that follows.
ConfirmClicked(habit_id) ==
    /\ rec.status = "rerun"
    /\ button("confirm_delete", habit_id)

RenderedWithout(habit_id) ==
    /\ rec.status = "idle"
    /\ habit_id \notin PageHabits
    /\ ~HabitExists(habit_id)

C29_ConfirmLeadsToDeleted ==
    \A h \in 1..MaxManagedHabits : ConfirmClicked(h) ~> RenderedWithout(h)

----------------------------------------------------------------------------
\* C30: update_user_profile changes only the profile fields it is given.
\* After an update of full_name, email, bio or notification_settings the
\* row has the username and the password hash it had, the rows of the other
\* users are as they were, and when get_user_by_username found the user by
\* the username before, it finds the user after, with a hash that
\* verify_password accepts for the passwords it accepted.
ProfileKwargs ==
    [full_name : FullNames, email : ProfileEmails, bio : Bios]
        \cup [notification_settings : NotificationSettings]

FoundAs(username, user_id) ==
    /\ get_user_by_username(username) # NotFound
    /\ get_user_by_username(username)[1].id = user_id

C30_UsernameAndHashKept ==
    [][\A u \in Users, kwargs \in ProfileKwargs :
          update_user_profile(u, kwargs)
             => /\ {q \in users' : q.user_id # u} = {q \in users : q.user_id # u}
                /\ \A r \in SelectUserById(u) :
                      /\ \E q \in SelectUserById(u)' :
                            q.name = r.name /\ q.gender = r.gender
                      /\ FoundAs(r.name, u)
                            => /\ FoundAs(r.name, u)'
                               /\ \A p \in Passwords :
                                     verify_password(p, r.gender)
                                        => verify_password(p,
                                              get_user_by_username(r.name)'[1].password_hash)]_vars

====
